---- MODULE Spec2Model ----
(***************************************************************************)
(* Streaming protocol normalisation layer of meeting-minutes               *)
(* (frontend/src-tauri/src/summary/llm_client.rs): stream_chat and its two *)
(* provider handlers, the endpoint resolution of the summary paths, the    *)
(* SSE block decoder and the two event normalisers.                        *)
(*                                                                         *)
(* Text is a sequence of symbols.  One symbol is either a single byte or   *)
(* character the decoder looks at (LF, the two bytes of a two-byte UTF-8   *)
(* character, a content character) or a run of ASCII bytes that the code   *)
(* only ever looks at as a whole (the "data: " prefix, the JSON syntax     *)
(* around a content string).  Appending ASCII to the buffer is             *)
(* concatenation, so a network split inside such a run behaves like a      *)
(* split at its edge.                                                      *)
(***************************************************************************)
EXTENDS Integers, Sequences, FiniteSets, TLC

VARIABLES
    path,                 \* entry point of the request
    provider,             \* LLMProvider of the request
    api_key,              \* api_key argument
    ollama_endpoint,      \* Option<&str>
    openai_compatible_endpoint, \* Option<&str>
    pc,                   \* position of the request in its handler
    api_url,              \* Option: resolved request URL
    headers,              \* header names of the request that was built
    http_calls,           \* number of client.post(..).send() calls issued
    response,             \* Option: outcome of the send().await
    wire,                 \* bytes of the response body not yet delivered
    buffer,               \* String buffer of the streaming loop
    finish_reason,        \* Option<String>
    usage_stats,          \* Option<StreamUsage> (OpenAI-compatible handler)
    usage_input,          \* Option<u32> (Claude handler)
    usage_output,         \* Option<u32> (Claude handler)
    ttft_us,              \* Option<u64>
    first_token_received, \* bool
    accumulated_content,  \* String the summary streaming loop collects
    now,                  \* last reading of request_start_time.elapsed()
    events,               \* events emitted on the app handle, in order
    result,               \* Option: value returned by the entry point
    total_time_us,        \* Option<u64>: elapsed time read at completion
    request_start_time,   \* Option<Instant>: Some(n) once Instant::now() has been
                          \* taken, n the number of requests sent by then
    request,              \* ChatRequest handed to api_chat_send_message
    meeting_lookup,       \* what MeetingsRepository::get_meeting gives
    transcript_text,      \* the transcript of the meeting
    metadata_cache,       \* METADATA_CACHE entry of the model: Option<context size>
    metadata_fetches,     \* number of metadata requests sent to the Ollama server
    metadata,             \* Option: result of METADATA_CACHE.get_or_fetch
    token_threshold,      \* Option<usize>: the threshold the function computed
    messages,             \* Vec<ChatMessage> built for, or handed to, validation
    validation,           \* Option: result of validate_chat_messages
    cmd_pc,               \* position of the command or function call
    cmd_result,           \* Option: value the command or function returned
    request_body,         \* Option: JSON body of the request stream_chat sends
    lrc_content,          \* content handed to parse_lrc
    meetings,             \* ids of the rows of table meetings
    chat_messages,        \* rows of table chat_messages
    transcript_chunks,    \* rows of table transcript_chunks
    utc_now,              \* last reading of Utc::now()
    db_last,              \* history: the last repository call and what it returned
    tasks,                \* the tasks api_chat_send_message has spawned
    sink,                 \* events the tasks have emitted on the app handle
    body,                 \* the response body the server sends on success
    blocks,               \* history: event blocks split off the buffer
    frames                \* history: payloads handed to serde_json::from_str

vars == <<path, provider, api_key, ollama_endpoint, openai_compatible_endpoint,
          pc, api_url, headers, http_calls, response, wire, buffer, finish_reason,
          usage_stats, usage_input, usage_output, ttft_us,
          first_token_received, accumulated_content, now, events, result,
          total_time_us, request_start_time, request, meeting_lookup,
          transcript_text, metadata_cache, metadata_fetches, metadata,
          token_threshold, messages, validation, cmd_pc, cmd_result,
          request_body, lrc_content, meetings, chat_messages, transcript_chunks,
          utc_now, db_last, tasks, sink, body, blocks, frames>>

\* the tasks spawned and what they have emitted
SinkState == <<tasks, sink>>
\* no task has been spawned
SinkIdle == tasks = <<>> /\ sink = <<>>

(***************************************************************************)
(* Bounds of the model.                                                    *)
(***************************************************************************)
\* longest response, in catalogue items, of the streaming specification
MaxBlocks == 3
\* longest response, in catalogue items, of the request specification
MaxBlocksRequest == 1
\* longest response, in catalogue items, of the summary streaming handlers
MaxBlocksSummary == 2
\* largest reading of the monotonic clock
MaxTime == 1

(***************************************************************************)
(* Option<T>: None is the empty sequence, Some(v) the one-element one.     *)
(***************************************************************************)
None == <<>>
Some(v) == <<v>>
IsSome(o) == o # <<>>
Unwrap(o) == o[1]


(***************************************************************************)
(* Symbols of the byte stream and of the decoded text.                     *)
(***************************************************************************)
LF == "LF"
SP == " "
DataPrefix == "data: "
EventPrefix == "event: "
\* the two bytes of one two-byte UTF-8 character, and that character
LeadByte == "C3"
ContByte == "A9"
EAcute == "U+00E9"
Replacement == "U+FFFD"
ContentChars == {"a", "b", EAcute, Replacement}

\* JSON syntax of an OpenAI-compatible chunk around its content string
ContentOpen == "{choices:[{delta:{content:'"
CloseNoFinish == "'}}]}"
CloseStop == "'},finish_reason:'stop'}]}"
CloseLength == "'},finish_reason:'length'}]}"
\* {"choices":[{"delta":{"content":"a"}},{"delta":{"content":"b"},"finish_reason":"length"}]}
TwoChoices == "{choices:[{delta:{content:'a'}},{delta:{content:'b'},finish_reason:'length'}]}"
\* {"choices":[],"usage":{"prompt_tokens":7,"completion_tokens":2,"total_tokens":9}}
UsageOnly == "{choices:[],usage:{7,2,9}}"
\* {"choices":[{"delta":{"content":"b"}}],"usage":{"prompt_tokens":7,"completion_tokens":1}}
UsageWithContent == "{choices:[{delta:{content:'b'}}],usage:{7,1}}"
DoneMarker == "[DONE]"
Garbage == "{oops"

\* JSON syntax of the Claude events
MessageStartJson == "{type:message_start,message:{usage:{input_tokens:10}}}"
TextOpen == "{type:content_block_delta,delta:{text:'"
TextClose == "'}}"
MessageDeltaJson == "{type:message_delta,delta:{stop_reason:end_turn},usage:{output_tokens:3}}"
MessageStopJson == "{type:message_stop}"
ErrorJson == "{type:error,error:{message:overloaded}}"
PingJson == "{type:ping}"

(***************************************************************************)
(* String::from_utf8_lossy on one network chunk: a lead byte followed by   *)
(* its continuation byte is one character, a lead byte or a continuation   *)
(* byte on its own is U+FFFD, every other byte is itself.                  *)
(***************************************************************************)
RECURSIVE from_utf8_lossy(_)
from_utf8_lossy(bytes) ==
    IF bytes = <<>> THEN <<>>
    ELSE IF Len(bytes) >= 2 /\ bytes[1] = LeadByte /\ bytes[2] = ContByte
         THEN <<EAcute>> \o from_utf8_lossy(SubSeq(bytes, 3, Len(bytes)))
    ELSE IF bytes[1] \in {LeadByte, ContByte}
         THEN <<Replacement>> \o from_utf8_lossy(Tail(bytes))
    ELSE <<bytes[1]>> \o from_utf8_lossy(Tail(bytes))

\* buffer.find("\n\n"): index of the first LF LF, 0 for None
find_blank_line(text) ==
    LET hits == {i \in 1..(Len(text) - 1) : text[i] = LF /\ text[i + 1] = LF}
    IN IF hits = {} THEN 0 ELSE CHOOSE i \in hits : \A j \in hits : i <= j

\* str::lines(): the pieces between LFs; no empty piece after a final LF
RECURSIVE lines(_)
lines(text) ==
    IF text = <<>> THEN <<>>
    ELSE LET hits == {i \in 1..Len(text) : text[i] = LF}
             i == CHOOSE k \in hits : \A j \in hits : k <= j
         IN IF hits = {} THEN <<text>>
            ELSE <<SubSeq(text, 1, i - 1)>> \o lines(SubSeq(text, i + 1, Len(text)))

starts_with(line, prefix) == line # <<>> /\ Head(line) = prefix

\* str::trim(): leading and trailing white space removed
TAB == "TAB"
White_Space == {SP, LF, TAB}
RECURSIVE trim_start(_)
trim_start(s) ==
    IF s # <<>> /\ Head(s) \in White_Space THEN trim_start(Tail(s)) ELSE s
RECURSIVE trim_end(_)
trim_end(s) ==
    IF s # <<>> /\ s[Len(s)] \in White_Space
    THEN trim_end(SubSeq(s, 1, Len(s) - 1)) ELSE s
trim(s) == trim_end(trim_start(s))

(***************************************************************************)
(* serde_json::from_str::<StreamChatChunk>: Err for anything that is not   *)
(* one whole chunk object.                                                 *)
(***************************************************************************)
FinishOf(close) ==
    IF close = CloseStop THEN Some("stop")
    ELSE IF close = CloseLength THEN Some("length")
    ELSE None

ParseStreamChatChunk(data) ==
    IF /\ Len(data) >= 2
       /\ data[1] = ContentOpen
       /\ data[Len(data)] \in {CloseNoFinish, CloseStop, CloseLength}
       /\ \A i \in 2..(Len(data) - 1) : data[i] \in ContentChars
    THEN [ok |-> TRUE,
          choices |-> <<[content |-> Some(SubSeq(data, 2, Len(data) - 1)),
                         finish_reason |-> FinishOf(data[Len(data)])]>>,
          usage |-> None]
    ELSE IF data = <<TwoChoices>>
    THEN [ok |-> TRUE,
          choices |-> <<[content |-> Some(<<"a">>), finish_reason |-> None],
                        [content |-> Some(<<"b">>), finish_reason |-> Some("length")]>>,
          usage |-> None]
    ELSE IF data = <<UsageOnly>>
    THEN [ok |-> TRUE, choices |-> <<>>,
          usage |-> Some([prompt_tokens |-> Some(7), completion_tokens |-> Some(2),
                          total_tokens |-> Some(9)])]
    ELSE IF data = <<UsageWithContent>>
    THEN [ok |-> TRUE,
          choices |-> <<[content |-> Some(<<"b">>), finish_reason |-> None]>>,
          usage |-> Some([prompt_tokens |-> Some(7), completion_tokens |-> Some(1),
                          total_tokens |-> None])]
    ELSE [ok |-> FALSE, choices |-> <<>>, usage |-> None]

(***************************************************************************)
(* serde_json::from_str::<ClaudeStreamEvent>, tagged by "type".            *)
(***************************************************************************)
ParseClaudeStreamEvent(data) ==
    LET ev(t) == [ok |-> TRUE, type |-> t, text |-> <<>>, input_tokens |-> None,
                  output_tokens |-> None, stop_reason |-> None, message |-> ""]
    IN IF /\ Len(data) >= 2
          /\ data[1] = TextOpen
          /\ data[Len(data)] = TextClose
          /\ \A i \in 2..(Len(data) - 1) : data[i] \in ContentChars
       THEN [ev("content_block_delta") EXCEPT !.text = SubSeq(data, 2, Len(data) - 1)]
       ELSE IF data = <<MessageStartJson>>
       THEN [ev("message_start") EXCEPT !.input_tokens = Some(10)]
       ELSE IF data = <<MessageDeltaJson>>
       THEN [ev("message_delta") EXCEPT !.stop_reason = Some("end_turn"),
                                        !.output_tokens = Some(3)]
       ELSE IF data = <<MessageStopJson>> THEN ev("message_stop")
       ELSE IF data = <<PingJson>> THEN ev("ping")
       ELSE IF data = <<ErrorJson>> THEN [ev("error") EXCEPT !.message = "overloaded"]
       ELSE [ev("invalid") EXCEPT !.ok = FALSE]


(***************************************************************************)
(* Event payloads (StreamTokenPayload, StreamDonePayload,                  *)
(* StreamErrorPayload) with the event name they are emitted under.         *)
(***************************************************************************)
RequestId == "request-1"
ModelName == "model-1"

StreamTokenPayload(delta) ==
    [event |-> "llm:chat:token", request_id |-> RequestId, content_delta |-> delta]

StreamDonePayload(usage, reason, label, ttft) ==
    [event |-> "llm:chat:done", request_id |-> RequestId, usage |-> usage,
     finish_reason |-> reason, model |-> Some(ModelName),
     provider |-> Some(label), ttft_us |-> ttft]

StreamErrorPayload(message) ==
    [event |-> "llm:chat:error", request_id |-> RequestId, message |-> message]

provider_name(p) ==
    CASE p = "OpenAI" -> "OpenAI"
      [] p = "Claude" -> "Claude"
      [] p = "Groq" -> "Groq"
      [] p = "Ollama" -> "Ollama"
      [] p = "OpenRouter" -> "OpenRouter"
      [] p = "OpenAICompatible" -> "OpenAI Compatible"

(***************************************************************************)
(* The locals of a streaming loop, as one record; out, parsed and err      *)
(* collect what one block emits, hands to the JSON parser and returns.     *)
(***************************************************************************)
Locals ==
    [finish_reason |-> finish_reason, usage_stats |-> usage_stats,
     usage_input |-> usage_input, usage_output |-> usage_output,
     ttft_us |-> ttft_us, first_token_received |-> first_token_received,
     out |-> <<>>, parsed |-> <<>>, err |-> None]

\* HandleChunk taking the elapsed time at every token
HandleChunk_TtftEveryToken(st, data, t) ==
    LET p == ParseStreamChatChunk(data)
        logged == [st EXCEPT !.parsed = Append(@, data)]
        choice == Head(p.choices)
        afterContent ==
            IF IsSome(choice.content) /\ Unwrap(choice.content) # <<>>
            THEN [logged EXCEPT
                    !.ttft_us = Some(t),
                    !.first_token_received = TRUE,
                    !.out = Append(@, StreamTokenPayload(Unwrap(choice.content)))]
            ELSE logged
        afterChoice ==
            IF p.choices # <<>>
            THEN [afterContent EXCEPT
                    !.finish_reason = IF IsSome(choice.finish_reason)
                                      THEN choice.finish_reason ELSE @]
            ELSE logged
    IN IF ~p.ok THEN logged
       ELSE [afterChoice EXCEPT !.usage_stats = IF IsSome(p.usage) THEN p.usage ELSE @]

\* HandleChunk reading the last choice of the chunk instead of the first
HandleChunk_LastChoice(st, data, t) ==
    LET p == ParseStreamChatChunk(data)
        logged == [st EXCEPT !.parsed = Append(@, data)]
        choice == p.choices[Len(p.choices)]
        afterContent ==
            IF IsSome(choice.content) /\ Unwrap(choice.content) # <<>>
            THEN [logged EXCEPT
                    !.ttft_us = IF ~logged.first_token_received THEN Some(t) ELSE @,
                    !.first_token_received = TRUE,
                    !.out = Append(@, StreamTokenPayload(Unwrap(choice.content)))]
            ELSE logged
        afterChoice ==
            IF p.choices # <<>>
            THEN [afterContent EXCEPT
                    !.finish_reason = IF IsSome(choice.finish_reason)
                                      THEN choice.finish_reason ELSE @]
            ELSE logged
    IN IF ~p.ok THEN logged
       ELSE [afterChoice EXCEPT !.usage_stats = IF IsSome(p.usage) THEN p.usage ELSE @]

(***************************************************************************)
(* stream_chat_openai_compatible, one data payload: the match on           *)
(* serde_json::from_str::<StreamChatChunk>(data).  t is the reading of     *)
(* request_start_time.elapsed() taken if this is the first token.          *)
(***************************************************************************)
\* HandleChunk keeping the first usage object of the stream
HandleChunk_FirstUsageKept(st, data, t) ==
    LET p == ParseStreamChatChunk(data)
        logged == [st EXCEPT !.parsed = Append(@, data)]
        choice == Head(p.choices)
        afterContent ==
            IF IsSome(choice.content) /\ Unwrap(choice.content) # <<>>
            THEN [logged EXCEPT
                    !.ttft_us = IF ~logged.first_token_received THEN Some(t) ELSE @,
                    !.first_token_received = TRUE,
                    !.out = Append(@, StreamTokenPayload(Unwrap(choice.content)))]
            ELSE logged
        afterChoice ==
            IF p.choices # <<>>
            THEN [afterContent EXCEPT
                    !.finish_reason = IF IsSome(choice.finish_reason)
                                      THEN choice.finish_reason ELSE @]
            ELSE logged
    IN IF ~p.ok THEN logged
       ELSE [afterChoice EXCEPT
               !.usage_stats = IF IsSome(p.usage) /\ ~IsSome(@) THEN p.usage ELSE @]

HandleChunk(st, data, t) ==
    LET p == ParseStreamChatChunk(data)
        logged == [st EXCEPT !.parsed = Append(@, data)]
        choice == Head(p.choices)
        afterContent ==
            IF IsSome(choice.content) /\ Unwrap(choice.content) # <<>>
            THEN [logged EXCEPT
                    !.ttft_us = IF ~logged.first_token_received THEN Some(t) ELSE @,
                    !.first_token_received = TRUE,
                    !.out = Append(@, StreamTokenPayload(Unwrap(choice.content)))]
            ELSE logged
        afterChoice ==
            IF p.choices # <<>>
            THEN [afterContent EXCEPT
                    !.finish_reason = IF IsSome(choice.finish_reason)
                                      THEN choice.finish_reason ELSE @]
            ELSE logged
    IN IF ~p.ok THEN logged
       ELSE [afterChoice EXCEPT !.usage_stats = IF IsSome(p.usage) THEN p.usage ELSE @]

\* the for loop emitting done at [DONE] and going on with the block
RECURSIVE ForSseLines_DoneEmitted(_, _, _)
ForSseLines_DoneEmitted(st, ls, t) ==
    IF ls = <<>> THEN st
    ELSE IF ~starts_with(Head(ls), DataPrefix)
         THEN ForSseLines_DoneEmitted(st, Tail(ls), t)
    ELSE IF trim(Tail(Head(ls))) = <<DoneMarker>>
         THEN ForSseLines_DoneEmitted(
                 [st EXCEPT !.out = Append(@, StreamDonePayload(st.usage_stats,
                                               st.finish_reason, "OpenAI", st.ttft_us))],
                 Tail(ls), t)
    ELSE ForSseLines_DoneEmitted(HandleChunk(st, Tail(Head(ls)), t), Tail(ls), t)

(***************************************************************************)
(* stream_chat_openai_compatible, `for sse_line in line.lines()`: lines    *)
(* without the data prefix are passed over, [DONE] breaks out of the for   *)
(* loop of this block.                                                     *)
(***************************************************************************)
RECURSIVE ForSseLines(_, _, _)
ForSseLines(st, ls, t) ==
    IF ls = <<>> THEN st
    ELSE IF ~starts_with(Head(ls), DataPrefix) THEN ForSseLines(st, Tail(ls), t)
    ELSE IF trim(Tail(Head(ls))) = <<DoneMarker>> THEN st
    ELSE ForSseLines(HandleChunk(st, Tail(Head(ls)), t), Tail(ls), t)

ProcessBlockOpenAI(st, block, t) == ForSseLines(st, lines(block), t)

(***************************************************************************)
(* stream_chat_claude, one block: the last data line of the block is the   *)
(* payload; the match on the parsed ClaudeStreamEvent.                     *)
(***************************************************************************)
\* HandleClaudeEvent with the error event falling into the `_ => {}` arm
HandleClaudeEvent_ErrorIgnored(st, data_str, t) ==
    LET e == ParseClaudeStreamEvent(data_str)
        logged == [st EXCEPT !.parsed = Append(@, data_str)]
    IN IF ~e.ok THEN logged
       ELSE CASE e.type = "message_start" ->
                   [logged EXCEPT !.usage_input =
                        IF IsSome(e.input_tokens) THEN e.input_tokens ELSE @]
              [] e.type = "content_block_delta" ->
                   [logged EXCEPT
                      !.ttft_us = IF ~logged.first_token_received /\ e.text # <<>>
                                  THEN Some(t) ELSE @,
                      !.first_token_received = @ \/ e.text # <<>>,
                      !.out = Append(@, StreamTokenPayload(e.text))]
              [] e.type = "message_delta" ->
                   [logged EXCEPT
                      !.finish_reason = IF IsSome(e.stop_reason) THEN e.stop_reason ELSE @,
                      !.usage_output = IF IsSome(e.output_tokens) THEN e.output_tokens ELSE @]
              [] OTHER -> logged

\* HandleClaudeEvent returning Err on a payload that does not parse
HandleClaudeEvent_AbortOnParseError(st, data_str, t) ==
    LET e == ParseClaudeStreamEvent(data_str)
        logged == [st EXCEPT !.parsed = Append(@, data_str)]
    IN IF ~e.ok THEN [logged EXCEPT !.err = Some(<<"Failed to parse: ", "expected value">>)]
       ELSE CASE e.type = "message_start" ->
                   [logged EXCEPT !.usage_input =
                        IF IsSome(e.input_tokens) THEN e.input_tokens ELSE @]
              [] e.type = "content_block_delta" ->
                   [logged EXCEPT
                      !.ttft_us = IF ~logged.first_token_received /\ e.text # <<>>
                                  THEN Some(t) ELSE @,
                      !.first_token_received = @ \/ e.text # <<>>,
                      !.out = Append(@, StreamTokenPayload(e.text))]
              [] e.type = "message_delta" ->
                   [logged EXCEPT
                      !.finish_reason = IF IsSome(e.stop_reason) THEN e.stop_reason ELSE @,
                      !.usage_output = IF IsSome(e.output_tokens) THEN e.output_tokens ELSE @]
              [] e.type = "error" ->
                   [logged EXCEPT !.err = Some(<<"Claude error: ", e.message>>)]
              [] OTHER -> logged

RECURSIVE LastDataLine(_, _)
LastDataLine(ls, data) ==
    IF ls = <<>> THEN data
    ELSE IF starts_with(Head(ls), EventPrefix) THEN LastDataLine(Tail(ls), data)
    ELSE IF starts_with(Head(ls), DataPrefix)
         THEN LastDataLine(Tail(ls), Some(Tail(Head(ls))))
    ELSE LastDataLine(Tail(ls), data)

HandleClaudeEvent(st, data_str, t) ==
    LET e == ParseClaudeStreamEvent(data_str)
        logged == [st EXCEPT !.parsed = Append(@, data_str)]
    IN IF ~e.ok THEN logged
       ELSE CASE e.type = "message_start" ->
                   [logged EXCEPT !.usage_input =
                        IF IsSome(e.input_tokens) THEN e.input_tokens ELSE @]
              [] e.type = "content_block_delta" ->
                   [logged EXCEPT
                      !.ttft_us = IF ~logged.first_token_received /\ e.text # <<>>
                                  THEN Some(t) ELSE @,
                      !.first_token_received = @ \/ e.text # <<>>,
                      !.out = Append(@, StreamTokenPayload(e.text))]
              [] e.type = "message_delta" ->
                   [logged EXCEPT
                      !.finish_reason = IF IsSome(e.stop_reason) THEN e.stop_reason ELSE @,
                      !.usage_output = IF IsSome(e.output_tokens) THEN e.output_tokens ELSE @]
              [] e.type = "error" ->
                   [logged EXCEPT !.err = Some(<<"Claude error: ", e.message>>)]
              [] OTHER -> logged

ProcessBlockClaude(st, block, t) ==
    LET data == LastDataLine(lines(block), None)
    IN IF IsSome(data) THEN HandleClaudeEvent(st, Unwrap(data), t) ELSE st

ProcessBlock(p, st, block, t) ==
    IF p = "Claude" THEN ProcessBlockClaude(st, block, t)
    ELSE ProcessBlockOpenAI(st, block, t)


(***************************************************************************)
(* Endpoint resolution and headers of stream_chat_openai_compatible and    *)
(* stream_chat_claude.  A URL is the sequence of the pieces format! joins. *)
(***************************************************************************)
Providers == {"OpenAI", "Claude", "Groq", "Ollama", "OpenRouter", "OpenAICompatible"}
Slash == "/"
DefaultOllamaHost == <<"http://localhost:11434">>

RECURSIVE trim_end_matches_slash(_)
trim_end_matches_slash(s) ==
    IF s # <<>> /\ s[Len(s)] = Slash
    THEN trim_end_matches_slash(SubSeq(s, 1, Len(s) - 1)) ELSE s

Resolved(url) == [ok |-> TRUE, url |-> url, err |-> <<>>]
Rejected(msg) == [ok |-> FALSE, url |-> <<>>, err |-> <<msg>>]

\* the match keeping the trailing slashes of the generic provider's base URL
ResolveChatEndpoint_SlashKept(p, ollama, compatible) ==
    CASE p = "OpenAI" -> Resolved(<<"https://api.openai.com/v1/chat/completions">>)
      [] p = "Groq" -> Resolved(<<"https://api.groq.com/openai/v1/chat/completions">>)
      [] p = "OpenRouter" -> Resolved(<<"https://openrouter.ai/api/v1/chat/completions">>)
      [] p = "Ollama" ->
           Resolved((IF IsSome(ollama) THEN Unwrap(ollama) ELSE DefaultOllamaHost)
                    \o <<"/v1/chat/completions">>)
      [] p = "OpenAICompatible" ->
           IF IsSome(compatible)
           THEN Resolved(Unwrap(compatible) \o <<"/chat/completions">>)
           ELSE Rejected("OpenAI Compatible endpoint not configured")
      [] OTHER -> Rejected("Unsupported provider for OpenAI-compatible streaming")

ResolveChatEndpoint(p, ollama, compatible) ==
    CASE p = "OpenAI" -> Resolved(<<"https://api.openai.com/v1/chat/completions">>)
      [] p = "Groq" -> Resolved(<<"https://api.groq.com/openai/v1/chat/completions">>)
      [] p = "OpenRouter" -> Resolved(<<"https://openrouter.ai/api/v1/chat/completions">>)
      [] p = "Ollama" ->
           Resolved((IF IsSome(ollama) THEN Unwrap(ollama) ELSE DefaultOllamaHost)
                    \o <<"/v1/chat/completions">>)
      [] p = "OpenAICompatible" ->
           IF IsSome(compatible)
           THEN Resolved(trim_end_matches_slash(Unwrap(compatible)) \o <<"/chat/completions">>)
           ELSE Rejected("OpenAI Compatible endpoint not configured")
      [] OTHER -> Rejected("Unsupported provider for OpenAI-compatible streaming")

\* HeaderValue parsing fails on a value with a control character
ValidKey == "sk-key"
ControlCharKey == "sk<LF>key"
HeaderValueOk(key) == key # ControlCharKey

\* the bearer header left out for every provider when the key is empty
ChatHeaders_EmptyKeySkipped(p, key) ==
    (IF key # ""
     THEN {<<"authorization", <<"Bearer ", key>>>>} ELSE {})
    \cup {<<"content-type", <<"application/json">>>>}

ChatHeaders(p, key) ==
    (IF key # "" \/ p # "OpenAICompatible"
     THEN {<<"authorization", <<"Bearer ", key>>>>} ELSE {})
    \cup {<<"content-type", <<"application/json">>>>}

ClaudeHeaders(key) ==
    {<<"x-api-key", <<key>>>>, <<"anthropic-version", <<"2023-06-01">>>>,
     <<"content-type", <<"application/json">>>>}

\* what stream_chat has built when it reaches client.post(..).send(), or the error
BuildChatRequest(p, key, ollama, compatible) ==
    IF p = "Claude"
    THEN IF HeaderValueOk(key)
         THEN [ok |-> TRUE, url |-> <<"https://api.anthropic.com/v1/messages">>,
               headers |-> ClaudeHeaders(key), err |-> <<>>]
         ELSE [ok |-> FALSE, url |-> <<>>, headers |-> {},
               err |-> <<"Invalid API key format">>]
    ELSE LET r == ResolveChatEndpoint(p, ollama, compatible)
         IN IF ~r.ok THEN [ok |-> FALSE, url |-> <<>>, headers |-> {}, err |-> r.err]
            ELSE IF (key # "" \/ p # "OpenAICompatible") /\ ~HeaderValueOk(key)
            THEN [ok |-> FALSE, url |-> <<>>, headers |-> {},
                  err |-> <<"Invalid authorization header">>]
            ELSE [ok |-> TRUE, url |-> r.url, headers |-> ChatHeaders(p, key),
                  err |-> <<>>]

\* the body stream_chat_openai_compatible sends
StreamingChatRequest(ms, max_tokens) ==
    [model |-> ModelName, messages |-> ms, stream |-> TRUE, max_tokens |-> max_tokens]

\* messages.iter().find(|m| m.role == "system")
RECURSIVE FindSystem(_)
FindSystem(ms) ==
    IF ms = <<>> THEN None
    ELSE IF Head(ms).role = "system" THEN Some(Head(ms))
    ELSE FindSystem(Tail(ms))

\* the body stream_chat_claude sends; system is None when the field is left
\* out; temperature and top_p are copied into either body when given
ClaudeRequestBody(ms, max_tokens) ==
    LET system_prompt == IF IsSome(FindSystem(ms)) THEN Unwrap(FindSystem(ms)).content
                         ELSE <<>>
        user_messages == SelectSeq(ms, LAMBDA m : m.role # "system")
    IN [model |-> ModelName,
        max_tokens |-> IF IsSome(max_tokens) THEN Unwrap(max_tokens) ELSE 2048,
        messages |-> user_messages,
        stream |-> TRUE,
        system |-> IF system_prompt # <<>> THEN Some(system_prompt) ELSE None]

ChatRequestBody(p, ms, max_tokens) ==
    IF p = "Claude" THEN ClaudeRequestBody(ms, max_tokens)
    ELSE StreamingChatRequest(ms, max_tokens)

(***************************************************************************)
(* stream_chat: the handler returns Err(e) and the match at the end of     *)
(* stream_chat emits llm:chat:error with e, or the handler has emitted     *)
(* llm:chat:done and returns Ok.                                           *)
(***************************************************************************)
StreamingLocals ==
    <<buffer, finish_reason, usage_stats, usage_input, usage_output, ttft_us,
      first_token_received, now, total_time_us, blocks, frames>>
Config == <<path, provider, api_key, ollama_endpoint, openai_compatible_endpoint, body>>
\* the state of api_chat_send_message and of the functions of chat/processor.rs
CommandState ==
    <<request, meeting_lookup, transcript_text, metadata_cache, metadata_fetches,
      metadata, token_threshold, messages, validation, cmd_pc, cmd_result>>

\* the input of parse_lrc and the tables the repositories work on
StoreState ==
    <<lrc_content, meetings, chat_messages, transcript_chunks, utc_now, db_last>>

\* a transcript is a stretch of text, measured in estimated tokens
Text(n) == [first |-> 1, last |-> n]
NoRequest ==
    [provider |-> "", api_key |-> None, endpoint |-> None, user_messages |-> <<>>,
     current_message |-> <<>>, max_tokens |-> None]

\* nothing has been parsed and the tables are empty
StoreIdle ==
    /\ lrc_content = <<>> /\ meetings = {} /\ chat_messages = {}
    /\ transcript_chunks = {} /\ utc_now = 0 /\ db_last = None

\* no command and no function of chat/processor.rs is under way
CommandIdle ==
    /\ request = NoRequest /\ meeting_lookup = "none"
    /\ transcript_text = Text(0)
    /\ metadata_cache = None /\ metadata_fetches = 0 /\ metadata = None
    /\ token_threshold = None /\ messages = <<>> /\ validation = None
    /\ cmd_pc = "idle" /\ cmd_result = None
    /\ StoreIdle

\* stream_chat returning the Err of its handler without emitting it
FailChat_NotEmitted(prior, e) ==
    /\ events' = prior
    /\ result' = Some([ok |-> FALSE, err |-> e])
    /\ pc' = "failed"

FailChat(prior, e) ==
    /\ events' = prior \o <<StreamErrorPayload(e)>>
    /\ result' = Some([ok |-> FALSE, err |-> e])
    /\ pc' = "failed"

\* stream_chat up to the send().await of its handler
StreamChatStart ==
    /\ path = "chat" /\ pc = "start"
    /\ LET r == BuildChatRequest(provider, api_key, ollama_endpoint,
                                 openai_compatible_endpoint)
       IN IF r.ok
          THEN /\ api_url' = Some(r.url)
               /\ headers' = r.headers
               /\ http_calls' = http_calls + 1
               /\ request_body' = Some(ChatRequestBody(provider, messages,
                                                        request.max_tokens))
               /\ pc' = "sending"
               /\ UNCHANGED <<events, result>>
          ELSE /\ FailChat(events, r.err)
               /\ UNCHANGED <<api_url, headers, http_calls, request_body>>
    /\ UNCHANGED <<Config, CommandState, StoreState, SinkState, request_start_time, accumulated_content, StreamingLocals, wire, response>>

ErrorBody == "rate limited"

\* send().await returns Err
ChatSendFails ==
    /\ path = "chat" /\ pc = "sending"
    /\ response' = Some([status |-> "none", text |-> None])
    /\ FailChat(events, <<IF provider = "Claude"
                          THEN "Failed to send streaming request to Claude: "
                          ELSE "Failed to send streaming request: ",
                          "connection refused">>)
    /\ UNCHANGED <<Config, CommandState, StoreState, SinkState, request_body, request_start_time, accumulated_content, StreamingLocals, wire, api_url, headers, http_calls>>

\* the handler going on to the streaming loop without looking at the status
ChatResponseNotSuccess_StatusIgnored ==
    /\ path = "chat" /\ pc = "sending"
    /\ pc' = "streaming"
    /\ response' = Some([status |-> "429", text |-> Some(ErrorBody)])
    /\ wire' = <<ErrorBody>>
    /\ buffer' = <<>>
    /\ finish_reason' = None /\ usage_stats' = None
    /\ usage_input' = None /\ usage_output' = None
    /\ ttft_us' = None /\ first_token_received' = FALSE
    /\ now' = 0
    /\ request_start_time' = Some(http_calls)
    /\ UNCHANGED <<Config, CommandState, StoreState, SinkState, request_body, accumulated_content, api_url, headers, http_calls,
                   events, result, total_time_us, blocks, frames>>

\* the status is not 2xx; response.text().await gives the body or fails
ChatResponseNotSuccess ==
    /\ path = "chat" /\ pc = "sending"
    /\ \E text \in {Some(ErrorBody), None} :
          /\ response' = Some([status |-> "429", text |-> text])
          /\ FailChat(events, <<IF provider = "Claude"
                                THEN "Claude streaming API request failed: "
                                ELSE "Streaming API request failed: ",
                                IF IsSome(text) THEN Unwrap(text) ELSE "Unknown error">>)
    /\ UNCHANGED <<Config, CommandState, StoreState, SinkState, request_body, request_start_time, accumulated_content, StreamingLocals, wire, api_url, headers, http_calls>>

\* the status is 2xx: the locals of the streaming loop are initialised
ChatResponseSuccess ==
    /\ path = "chat" /\ pc = "sending"
    /\ pc' = "streaming"
    /\ response' = Some([status |-> "200", text |-> None])
    /\ wire' = body
    /\ buffer' = <<>>
    /\ finish_reason' = None /\ usage_stats' = None
    /\ usage_input' = None /\ usage_output' = None
    /\ ttft_us' = None /\ first_token_received' = FALSE
    /\ now' = 0
    /\ request_start_time' = Some(http_calls)
    /\ UNCHANGED <<Config, CommandState, StoreState, SinkState, request_body, accumulated_content, api_url, headers, http_calls, events, result,
                   total_time_us, blocks, frames>>

\* stream.next().await yields Ok(chunk): from_utf8_lossy, buffer.push_str
ChatRecvChunk ==
    /\ path = "chat" /\ pc = "streaming"
    /\ find_blank_line(buffer) = 0
    /\ wire # <<>>
    /\ \E n \in 1..Len(wire) :
          /\ buffer' = buffer \o from_utf8_lossy(SubSeq(wire, 1, n))
          /\ wire' = SubSeq(wire, n + 1, Len(wire))
    /\ UNCHANGED <<Config, CommandState, StoreState, SinkState, request_body, request_start_time, accumulated_content, api_url, headers, http_calls, response, events, result,
                   pc, finish_reason, usage_stats, usage_input, usage_output, ttft_us,
                   first_token_received, now, total_time_us, blocks, frames>>

\* the iteration cutting the block off and leaving its blank line in the buffer
ChatProcessBlock_BlankLineKept ==
    /\ path = "chat" /\ pc = "streaming"
    /\ find_blank_line(buffer) > 0
    /\ LET line_end == find_blank_line(buffer)
           block == SubSeq(buffer, 1, line_end - 1)
       IN \E t \in now..MaxTime :
            LET st == ProcessBlock(provider, Locals, block, t)
            IN /\ (st.ttft_us = ttft_us => t = now)
               /\ now' = t
               /\ buffer' = SubSeq(buffer, line_end, Len(buffer))
               /\ blocks' = Append(blocks, block)
               /\ frames' = frames \o st.parsed
               /\ finish_reason' = st.finish_reason
               /\ usage_stats' = st.usage_stats
               /\ usage_input' = st.usage_input
               /\ usage_output' = st.usage_output
               /\ ttft_us' = st.ttft_us
               /\ first_token_received' = st.first_token_received
               /\ IF IsSome(st.err)
                  THEN FailChat(events \o st.out, Unwrap(st.err))
                  ELSE /\ events' = events \o st.out
                       /\ UNCHANGED <<pc, result>>
    /\ UNCHANGED <<Config, CommandState, StoreState, SinkState, request_body, request_start_time, accumulated_content, api_url, headers, http_calls, response, wire,
                   total_time_us>>

\* one iteration of `while let Some(line_end) = buffer.find("\n\n")`
ChatProcessBlock ==
    /\ path = "chat" /\ pc = "streaming"
    /\ find_blank_line(buffer) > 0
    /\ LET line_end == find_blank_line(buffer)
           block == SubSeq(buffer, 1, line_end - 1)
       IN \E t \in now..MaxTime :
            LET st == ProcessBlock(provider, Locals, block, t)
            IN /\ (st.ttft_us = ttft_us => t = now)
               /\ now' = t
               /\ buffer' = SubSeq(buffer, line_end + 2, Len(buffer))
               /\ blocks' = Append(blocks, block)
               /\ frames' = frames \o st.parsed
               /\ finish_reason' = st.finish_reason
               /\ usage_stats' = st.usage_stats
               /\ usage_input' = st.usage_input
               /\ usage_output' = st.usage_output
               /\ ttft_us' = st.ttft_us
               /\ first_token_received' = st.first_token_received
               /\ IF IsSome(st.err)
                  THEN FailChat(events \o st.out, Unwrap(st.err))
                  ELSE /\ events' = events \o st.out
                       /\ UNCHANGED <<pc, result>>
    /\ UNCHANGED <<Config, CommandState, StoreState, SinkState, request_body, request_start_time, accumulated_content, api_url, headers, http_calls, response, wire,
                   total_time_us>>

\* stream.next().await yields Err(e)
ChatStreamError ==
    /\ path = "chat" /\ pc = "streaming"
    /\ find_blank_line(buffer) = 0
    /\ FailChat(events, <<IF provider = "Claude" THEN "Claude stream error: "
                          ELSE "Stream error: ", "connection reset">>)
    /\ UNCHANGED <<Config, CommandState, StoreState, SinkState, request_body, request_start_time, accumulated_content, StreamingLocals, wire, api_url, headers, http_calls,
                   response>>

\* the total computed from whichever counts are there
ClaudeUsage_TotalOfEither(input, output) ==
    IF IsSome(input) \/ IsSome(output)
    THEN Some([prompt_tokens |-> input, completion_tokens |-> output,
               total_tokens |-> Some((IF IsSome(input) THEN Unwrap(input) ELSE 0)
                                     + (IF IsSome(output) THEN Unwrap(output) ELSE 0))])
    ELSE None

ClaudeUsage(input, output) ==
    IF IsSome(input) \/ IsSome(output)
    THEN Some([prompt_tokens |-> input, completion_tokens |-> output,
               total_tokens |-> IF IsSome(input) /\ IsSome(output)
                                THEN Some(Unwrap(input) + Unwrap(output)) ELSE None])
    ELSE None

\* the code after the loop returning Err when text is left in the buffer
ChatStreamEnd_PartialBlockRejected ==
    /\ path = "chat" /\ pc = "streaming"
    /\ find_blank_line(buffer) = 0
    /\ wire = <<>>
    /\ \E t \in now..MaxTime :
          /\ now' = t
          /\ total_time_us' = Some(t)
    /\ IF buffer # <<>>
       THEN FailChat(events, <<"Stream error: ", "incomplete event">>)
       ELSE /\ events' = Append(events,
                  StreamDonePayload(IF provider = "Claude"
                                    THEN ClaudeUsage(usage_input, usage_output)
                                    ELSE usage_stats,
                                    finish_reason, provider_name(provider), ttft_us))
            /\ result' = Some([ok |-> TRUE, err |-> <<>>])
            /\ pc' = "completed"
    /\ UNCHANGED <<Config, CommandState, StoreState, SinkState, request_body, request_start_time, accumulated_content, api_url, headers, http_calls, response, wire, buffer,
                   finish_reason, usage_stats, usage_input, usage_output, ttft_us,
                   first_token_received, blocks, frames>>

\* stream.next().await yields None: the code after the loop
ChatStreamEnd ==
    /\ path = "chat" /\ pc = "streaming"
    /\ find_blank_line(buffer) = 0
    /\ wire = <<>>
    /\ \E t \in now..MaxTime :
          /\ now' = t
          /\ total_time_us' = Some(t)
    /\ events' = Append(events,
          StreamDonePayload(IF provider = "Claude"
                            THEN ClaudeUsage(usage_input, usage_output)
                            ELSE usage_stats,
                            finish_reason, provider_name(provider), ttft_us))
    /\ result' = Some([ok |-> TRUE, err |-> <<>>])
    /\ pc' = "completed"
    /\ UNCHANGED <<Config, CommandState, StoreState, SinkState, request_body, request_start_time, accumulated_content, api_url, headers, http_calls, response, wire, buffer,
                   finish_reason, usage_stats, usage_input, usage_output, ttft_us,
                   first_token_received, blocks, frames>>


(***************************************************************************)
(* The responses a server may send: any sequence of items of the schema's  *)
(* catalogue.  An item is one event block, or one line that the next item  *)
(* continues in the same block.                                            *)
(***************************************************************************)
OpenAIItems ==
    { <<DataPrefix, ContentOpen, "a", CloseNoFinish, LF, LF>>,
      <<DataPrefix, ContentOpen, LeadByte, ContByte, CloseStop, LF, LF>>,
      <<DataPrefix, ContentOpen, CloseLength, LF, LF>>,
      <<DataPrefix, TwoChoices, LF, LF>>,
      <<DataPrefix, UsageOnly, LF, LF>>,
      <<DataPrefix, UsageWithContent, LF, LF>>,
      <<DataPrefix, Garbage, LF, LF>>,
      <<DataPrefix, DoneMarker, LF, LF>>,
      <<DataPrefix, DoneMarker, SP, LF>> }

ClaudeItems ==
    { <<EventPrefix, "message_start", LF, DataPrefix, MessageStartJson, LF, LF>>,
      <<DataPrefix, TextOpen, "a", TextClose, LF, LF>>,
      <<DataPrefix, TextOpen, TextClose, LF, LF>>,
      <<DataPrefix, TextOpen, LeadByte, ContByte, TextClose, LF, LF>>,
      <<DataPrefix, MessageDeltaJson, LF, LF>>,
      <<DataPrefix, MessageStopJson, LF, LF>>,
      <<DataPrefix, ErrorJson, LF, LF>>,
      <<DataPrefix, Garbage, LF, LF>> }

RECURSIVE BodiesOf(_, _)
BodiesOf(items, n) ==
    IF n = 0 THEN {<<>>}
    ELSE LET shorter == BodiesOf(items, n - 1)
         IN shorter \cup {b \o i : b \in shorter, i \in items}

Bodies(p, n) == BodiesOf(IF p = "Claude" THEN ClaudeItems ELSE OpenAIItems, n)

Keys == {"", ValidKey, ControlCharKey}
Host == <<"http://host:8080">>
OllamaEndpoints == {None, Some(Host)}
CompatibleEndpoints ==
    {None, Some(Host), Some(Host \o <<Slash>>), Some(Host \o <<Slash, Slash>>)}

InitWith(paths, providers, keys, ollamas, compatibles, n) ==
    /\ path \in paths
    /\ provider \in providers
    /\ api_key \in keys
    /\ ollama_endpoint \in ollamas
    /\ openai_compatible_endpoint \in compatibles
    /\ body \in IF path = "summary" THEN {<<>>} ELSE Bodies(provider, n)
    /\ pc = "start"
    /\ CommandIdle
    /\ api_url = None /\ headers = {} /\ http_calls = 0 /\ response = None
    /\ wire = <<>> /\ buffer = <<>>
    /\ finish_reason = None /\ usage_stats = None
    /\ usage_input = None /\ usage_output = None
    /\ ttft_us = None /\ first_token_received = FALSE
    /\ accumulated_content = <<>>
    /\ now = 0 /\ total_time_us = None /\ request_start_time = None
    /\ events = <<>> /\ result = None /\ request_body = None
    /\ blocks = <<>> /\ frames = <<>> /\ SinkIdle

\* every provider, key and endpoint, short responses
InitRequest(paths) ==
    InitWith(paths, Providers, Keys, OllamaEndpoints, CompatibleEndpoints,
             MaxBlocksRequest)

\* one provider of each kind with a usable key and endpoint, long responses
InitStream(paths) ==
    InitWith(paths, {"OpenAI", "Claude", "OpenAICompatible"}, {ValidKey}, {None},
             {Some(Host)}, MaxBlocks)

\* the requests made through stream_chat
Init == InitRequest({"chat"}) \/ InitStream({"chat"})

Next ==
    \/ StreamChatStart
    \/ ChatSendFails
    \/ ChatResponseNotSuccess
    \/ ChatResponseSuccess
    \/ ChatRecvChunk
    \/ ChatProcessBlock
    \/ ChatStreamError
    \/ ChatStreamEnd

Spec == Init /\ [][Next]_vars


(***************************************************************************)
(* Responses whose event blocks have several lines, no recognized line, or *)
(* no blank line after the last one.                                       *)
(***************************************************************************)
\* longest response, in catalogue items, of the specification of the lines
MaxLineItems == 3
\* an SSE comment line, which has neither prefix
KeepAlive == ": keep-alive"

OpenAILineItems ==
    { <<DataPrefix, ContentOpen, "a", CloseNoFinish, LF>>,
      <<DataPrefix, ContentOpen, "b", CloseStop, LF, LF>>,
      <<DataPrefix, Garbage, LF>>,
      <<KeepAlive, LF, LF>>,
      <<DataPrefix, DoneMarker, LF, LF>> }

ClaudeLineItems ==
    { <<DataPrefix, TextOpen, "a", TextClose, LF>>,
      <<DataPrefix, TextOpen, "b", TextClose, LF, LF>>,
      <<DataPrefix, MessageDeltaJson, LF>>,
      <<EventPrefix, "ping", LF, LF>>,
      <<KeepAlive, LF, LF>> }

InitLines ==
    /\ path = "chat"
    /\ provider \in {"OpenAI", "Claude"}
    /\ api_key = ValidKey
    /\ ollama_endpoint = None
    /\ openai_compatible_endpoint = None
    /\ body \in BodiesOf(IF provider = "Claude" THEN ClaudeLineItems ELSE OpenAILineItems,
                         MaxLineItems)
    /\ pc = "start"
    /\ CommandIdle
    /\ api_url = None /\ headers = {} /\ http_calls = 0 /\ response = None
    /\ wire = <<>> /\ buffer = <<>>
    /\ finish_reason = None /\ usage_stats = None
    /\ usage_input = None /\ usage_output = None
    /\ ttft_us = None /\ first_token_received = FALSE
    /\ accumulated_content = <<>>
    /\ now = 0 /\ total_time_us = None /\ request_start_time = None
    /\ events = <<>> /\ result = None /\ request_body = None
    /\ blocks = <<>> /\ frames = <<>> /\ SinkIdle

SpecLines == InitLines /\ [][Next]_vars

\* The same requests with the task of stream_chat polled while it can take a
\* step: the runtime goes on polling a spawned task, send().await returns,
\* and the byte stream yields a chunk, an error or its end.
\* the block-splitting loop has a block to split; ChatProcessBlock is enabled
\* exactly then
BlockReady == path = "chat" /\ pc = "streaming" /\ find_blank_line(buffer) > 0

\* the steps of stream_chat outside the block-splitting loop
AwaitStep ==
    \/ StreamChatStart
    \/ ChatSendFails
    \/ ChatResponseNotSuccess
    \/ ChatResponseSuccess
    \/ ChatRecvChunk
    \/ ChatStreamError
    \/ ChatStreamEnd

\* weak fairness of ChatProcessBlock, with its enabling condition written out
BlockFairness == <>[]BlockReady => []<><<ChatProcessBlock>>_vars

SpecLive == InitLines /\ [][Next]_vars /\ WF_vars(AwaitStep) /\ BlockFairness


(***************************************************************************)
(* generate_summary: _generate_summary_streaming when stream is true,      *)
(* _generate_summary_non_streaming otherwise.  Both return a Result and    *)
(* emit no event.                                                          *)
(***************************************************************************)
ResolveSummaryStreamingEndpoint(p, ollama, compatible) ==
    CASE p = "OpenAI" -> Resolved(<<"https://api.openai.com/v1/chat/completions">>)
      [] p = "Groq" -> Resolved(<<"https://api.groq.com/openai/v1/chat/completions">>)
      [] p = "OpenRouter" -> Resolved(<<"https://openrouter.ai/api/v1/chat/completions">>)
      [] p = "Ollama" ->
           Resolved((IF IsSome(ollama) THEN Unwrap(ollama) ELSE DefaultOllamaHost)
                    \o <<"/v1/chat/completions">>)
      [] p = "OpenAICompatible" ->
           IF IsSome(compatible)
           THEN Resolved(trim_end_matches_slash(Unwrap(compatible)) \o <<"/chat/completions">>)
           ELSE Rejected("OpenAI Compatible endpoint not configured")
      [] OTHER -> Rejected("Unsupported provider for OpenAI-compatible streaming")

\* the generic provider falling back to a default host like Ollama does
ResolveSummaryEndpoint_DefaultHost(p, key, ollama, compatible) ==
    CASE p = "OpenAI" -> Resolved(<<"https://api.openai.com/v1/chat/completions">>)
      [] p = "Groq" -> Resolved(<<"https://api.groq.com/openai/v1/chat/completions">>)
      [] p = "OpenRouter" -> Resolved(<<"https://openrouter.ai/api/v1/chat/completions">>)
      [] p = "Ollama" ->
           Resolved((IF IsSome(ollama) THEN Unwrap(ollama) ELSE DefaultOllamaHost)
                    \o <<"/v1/chat/completions">>)
      [] p = "Claude" ->
           IF HeaderValueOk(key) THEN Resolved(<<"https://api.anthropic.com/v1/messages">>)
           ELSE Rejected("Invalid API key format")
      [] p = "OpenAICompatible" ->
           Resolved(trim_end_matches_slash(IF IsSome(compatible) THEN Unwrap(compatible)
                                           ELSE DefaultOllamaHost)
                    \o <<"/chat/completions">>)

\* the match of _generate_summary_non_streaming; the Claude arm parses the key
ResolveSummaryEndpoint(p, key, ollama, compatible) ==
    CASE p = "OpenAI" -> Resolved(<<"https://api.openai.com/v1/chat/completions">>)
      [] p = "Groq" -> Resolved(<<"https://api.groq.com/openai/v1/chat/completions">>)
      [] p = "OpenRouter" -> Resolved(<<"https://openrouter.ai/api/v1/chat/completions">>)
      [] p = "Ollama" ->
           Resolved((IF IsSome(ollama) THEN Unwrap(ollama) ELSE DefaultOllamaHost)
                    \o <<"/v1/chat/completions">>)
      [] p = "Claude" ->
           IF HeaderValueOk(key) THEN Resolved(<<"https://api.anthropic.com/v1/messages">>)
           ELSE Rejected("Invalid API key format")
      [] p = "OpenAICompatible" ->
           IF IsSome(compatible)
           THEN Resolved(trim_end_matches_slash(Unwrap(compatible)) \o <<"/chat/completions">>)
           ELSE Rejected("OpenAI Compatible endpoint not configured")

BuildSummaryStreamingRequest(p, key, ollama, compatible) ==
    LET r == ResolveSummaryStreamingEndpoint(p, ollama, compatible)
    IN IF ~r.ok THEN [ok |-> FALSE, url |-> <<>>, headers |-> {}, err |-> r.err]
       ELSE IF (key # "" \/ p # "OpenAICompatible") /\ ~HeaderValueOk(key)
       THEN [ok |-> FALSE, url |-> <<>>, headers |-> {},
             err |-> <<"Invalid authorization header">>]
       ELSE [ok |-> TRUE, url |-> r.url, headers |-> ChatHeaders(p, key), err |-> <<>>]

BuildSummaryRequest(p, key, ollama, compatible) ==
    LET r == ResolveSummaryEndpoint(p, key, ollama, compatible)
    IN IF ~r.ok THEN [ok |-> FALSE, url |-> <<>>, headers |-> {}, err |-> r.err]
       ELSE IF p = "Claude"
       THEN [ok |-> TRUE, url |-> r.url, headers |-> ClaudeHeaders(key), err |-> <<>>]
       ELSE IF (key # "" \/ p # "OpenAICompatible") /\ ~HeaderValueOk(key)
       THEN [ok |-> FALSE, url |-> <<>>, headers |-> {},
             err |-> <<"Invalid authorization header">>]
       ELSE [ok |-> TRUE, url |-> r.url, headers |-> ChatHeaders(p, key), err |-> <<>>]

SummaryPaths == {"summary_streaming", "summary"}

FailSummary(e) ==
    /\ result' = Some([ok |-> FALSE, err |-> e])
    /\ pc' = "failed"

\* either summary function up to its send().await
SummaryStart ==
    /\ path \in SummaryPaths /\ pc = "start"
    /\ LET r == IF path = "summary_streaming"
                THEN BuildSummaryStreamingRequest(provider, api_key, ollama_endpoint,
                                                  openai_compatible_endpoint)
                ELSE BuildSummaryRequest(provider, api_key, ollama_endpoint,
                                         openai_compatible_endpoint)
       IN IF r.ok
          THEN /\ api_url' = Some(r.url)
               /\ headers' = r.headers
               /\ http_calls' = http_calls + 1
               /\ pc' = "sending"
               /\ UNCHANGED result
          ELSE /\ FailSummary(r.err)
               /\ UNCHANGED <<api_url, headers, http_calls>>
    /\ request_start_time' = Some(http_calls)
    /\ UNCHANGED <<Config, CommandState, StoreState, SinkState, request_body, accumulated_content, StreamingLocals, wire, response, events>>

SummarySendFails ==
    /\ path \in SummaryPaths /\ pc = "sending"
    /\ response' = Some([status |-> "none", text |-> None])
    /\ FailSummary(<<IF path = "summary_streaming"
                     THEN "Failed to send streaming request: "
                     ELSE "Failed to send request to LLM: ", "connection refused">>)
    /\ UNCHANGED <<Config, CommandState, StoreState, SinkState, request_body, request_start_time, accumulated_content, StreamingLocals, wire, api_url,
                   headers, http_calls, events>>

SummaryResponseNotSuccess ==
    /\ path \in SummaryPaths /\ pc = "sending"
    /\ \E text \in {Some(ErrorBody), None} :
          /\ response' = Some([status |-> "429", text |-> text])
          /\ FailSummary(<<IF path = "summary_streaming"
                           THEN "Streaming API request failed: "
                           ELSE "LLM API request failed: ",
                           IF IsSome(text) THEN Unwrap(text) ELSE "Unknown error">>)
    /\ UNCHANGED <<Config, CommandState, StoreState, SinkState, request_body, request_start_time, accumulated_content, StreamingLocals, wire, api_url,
                   headers, http_calls, events>>

\* _generate_summary_non_streaming: response.json() and choices.get(0)
SummaryResponseParsed ==
    /\ path = "summary" /\ pc = "sending"
    /\ response' = Some([status |-> "200", text |-> None])
    /\ \E t \in now..MaxTime :
          /\ now' = t
          /\ \/ /\ FailSummary(<<"Failed to parse LLM response: ", "expected value">>)
                /\ UNCHANGED total_time_us
             \/ /\ FailSummary(<<"No content in LLM response">>)
                /\ UNCHANGED total_time_us
             \/ /\ result' = Some([ok |-> TRUE, err |-> <<>>,
                                   content |-> trim(<<SP, "a", SP>>),
                                   ttft_us |-> None, total_time_us |-> t])
                /\ total_time_us' = Some(t)
                /\ pc' = "completed"
    /\ UNCHANGED <<Config, CommandState, StoreState, SinkState, request_body, request_start_time, accumulated_content, wire, api_url, headers, http_calls,
                   events, buffer, finish_reason, usage_stats, usage_input,
                   usage_output, ttft_us, first_token_received, blocks, frames>>

\* _generate_summary_streaming: the status is 2xx, the loop starts
SummaryStreamingResponseSuccess ==
    /\ path = "summary_streaming" /\ pc = "sending"
    /\ pc' = "streaming"
    /\ response' = Some([status |-> "200", text |-> None])
    /\ wire' = body
    /\ buffer' = <<>> /\ accumulated_content' = <<>>
    /\ ttft_us' = None /\ first_token_received' = FALSE
    /\ UNCHANGED <<Config, CommandState, StoreState, SinkState, request_body, request_start_time, api_url, headers, http_calls, events, result, now,
                   total_time_us, blocks, frames, finish_reason, usage_stats,
                   usage_input, usage_output>>

SummaryRecvChunk ==
    /\ path = "summary_streaming" /\ pc = "streaming"
    /\ find_blank_line(buffer) = 0
    /\ wire # <<>>
    /\ \E n \in 1..Len(wire) :
          /\ buffer' = buffer \o from_utf8_lossy(SubSeq(wire, 1, n))
          /\ wire' = SubSeq(wire, n + 1, Len(wire))
    /\ UNCHANGED <<Config, CommandState, StoreState, SinkState, request_body, request_start_time, accumulated_content, api_url, headers, http_calls,
                   response, events, result, pc, finish_reason, usage_stats,
                   usage_input, usage_output, ttft_us, first_token_received, now,
                   total_time_us, blocks, frames>>

SummaryLocals ==
    [accumulated_content |-> accumulated_content, ttft_us |-> ttft_us,
     first_token_received |-> first_token_received, parsed |-> <<>>]

\* _generate_summary_streaming, one data payload
HandleSummaryChunk(st, data, t) ==
    LET p == ParseStreamChatChunk(data)
        logged == [st EXCEPT !.parsed = Append(@, data)]
        choice == Head(p.choices)
    IN IF p.ok /\ p.choices # <<>> /\ IsSome(choice.content)
          /\ Unwrap(choice.content) # <<>>
       THEN [logged EXCEPT
               !.ttft_us = IF ~logged.first_token_received THEN Some(t) ELSE @,
               !.first_token_received = TRUE,
               !.accumulated_content = @ \o Unwrap(choice.content)]
       ELSE logged

RECURSIVE ForSummaryLines(_, _, _)
ForSummaryLines(st, ls, t) ==
    IF ls = <<>> THEN st
    ELSE IF ~starts_with(Head(ls), DataPrefix) THEN ForSummaryLines(st, Tail(ls), t)
    ELSE IF trim(Tail(Head(ls))) = <<DoneMarker>> THEN st
    ELSE ForSummaryLines(HandleSummaryChunk(st, Tail(Head(ls)), t), Tail(ls), t)

SummaryProcessBlock ==
    /\ path = "summary_streaming" /\ pc = "streaming"
    /\ find_blank_line(buffer) > 0
    /\ LET line_end == find_blank_line(buffer)
           block == SubSeq(buffer, 1, line_end - 1)
       IN \E t \in now..MaxTime :
            LET st == ForSummaryLines(SummaryLocals, lines(block), t)
            IN /\ (st.ttft_us = ttft_us => t = now)
               /\ now' = t
               /\ buffer' = SubSeq(buffer, line_end + 2, Len(buffer))
               /\ blocks' = Append(blocks, block)
               /\ frames' = frames \o st.parsed
               /\ accumulated_content' = st.accumulated_content
               /\ ttft_us' = st.ttft_us
               /\ first_token_received' = st.first_token_received
    /\ UNCHANGED <<Config, CommandState, StoreState, SinkState, request_body, request_start_time, api_url, headers, http_calls, response, wire, events,
                   result, pc, total_time_us, finish_reason, usage_stats,
                   usage_input, usage_output>>

SummaryStreamError ==
    /\ path = "summary_streaming" /\ pc = "streaming"
    /\ find_blank_line(buffer) = 0
    /\ FailSummary(<<"Stream error: ", "connection reset">>)
    /\ UNCHANGED <<Config, CommandState, StoreState, SinkState, request_body, request_start_time, accumulated_content, StreamingLocals, wire, api_url,
                   headers, http_calls, response, events>>

\* the total read off a timer started after the first token may have come
SummaryStreamEnd_LaterStart ==
    /\ path = "summary_streaming" /\ pc = "streaming"
    /\ find_blank_line(buffer) = 0
    /\ wire = <<>>
    /\ \E t \in 0..MaxTime :
          /\ now' = t
          /\ total_time_us' = Some(t)
          /\ result' = Some([ok |-> TRUE, err |-> <<>>,
                             content |-> accumulated_content,
                             ttft_us |-> ttft_us, total_time_us |-> t])
    /\ pc' = "completed"
    /\ UNCHANGED <<Config, CommandState, StoreState, SinkState, request_body, request_start_time, accumulated_content, api_url, headers, http_calls,
                   response, wire, buffer, events, finish_reason, usage_stats,
                   usage_input, usage_output, ttft_us, first_token_received,
                   blocks, frames>>

SummaryStreamEnd ==
    /\ path = "summary_streaming" /\ pc = "streaming"
    /\ find_blank_line(buffer) = 0
    /\ wire = <<>>
    /\ \E t \in now..MaxTime :
          /\ now' = t
          /\ total_time_us' = Some(t)
          /\ result' = Some([ok |-> TRUE, err |-> <<>>,
                             content |-> accumulated_content,
                             ttft_us |-> ttft_us, total_time_us |-> t])
    /\ pc' = "completed"
    /\ UNCHANGED <<Config, CommandState, StoreState, SinkState, request_body, request_start_time, accumulated_content, api_url, headers, http_calls,
                   response, wire, buffer, events, finish_reason, usage_stats,
                   usage_input, usage_output, ttft_us, first_token_received,
                   blocks, frames>>

(***************************************************************************)
(* _generate_summary_streaming_claude, the handler generate_summary_streaming *)
(* routes a Claude request to.  It returns a Result and emits no event.     *)
(***************************************************************************)
SummaryClaudePath == "summary_streaming_claude"

\* headers of the Claude handler, up to its send().await
SummaryClaudeStart ==
    /\ path = SummaryClaudePath /\ pc = "start"
    /\ request_start_time' = Some(http_calls)
    /\ IF HeaderValueOk(api_key)
       THEN /\ api_url' = Some(<<"https://api.anthropic.com/v1/messages">>)
            /\ headers' = ClaudeHeaders(api_key)
            /\ http_calls' = http_calls + 1
            /\ pc' = "sending"
            /\ UNCHANGED result
       ELSE /\ FailSummary(<<"Invalid API key format">>)
            /\ UNCHANGED <<api_url, headers, http_calls>>
    /\ UNCHANGED <<Config, CommandState, StoreState, SinkState, request_body, accumulated_content, StreamingLocals, wire, response, events>>

SummaryClaudeSendFails ==
    /\ path = SummaryClaudePath /\ pc = "sending"
    /\ response' = Some([status |-> "none", text |-> None])
    /\ FailSummary(<<"Failed to send streaming request to Claude: ", "connection refused">>)
    /\ UNCHANGED <<Config, CommandState, StoreState, SinkState, request_body, request_start_time, accumulated_content, StreamingLocals,
                   wire, api_url, headers, http_calls, events>>

SummaryClaudeResponseNotSuccess ==
    /\ path = SummaryClaudePath /\ pc = "sending"
    /\ \E text \in {Some(ErrorBody), None} :
          /\ response' = Some([status |-> "429", text |-> text])
          /\ FailSummary(<<"Claude streaming API request failed: ",
                           IF IsSome(text) THEN Unwrap(text) ELSE "Unknown error">>)
    /\ UNCHANGED <<Config, CommandState, StoreState, SinkState, request_body, request_start_time, accumulated_content, StreamingLocals,
                   wire, api_url, headers, http_calls, events>>

SummaryClaudeResponseSuccess ==
    /\ path = SummaryClaudePath /\ pc = "sending"
    /\ pc' = "streaming"
    /\ response' = Some([status |-> "200", text |-> None])
    /\ wire' = body
    /\ buffer' = <<>> /\ accumulated_content' = <<>>
    /\ ttft_us' = None /\ first_token_received' = FALSE
    /\ UNCHANGED <<Config, CommandState, StoreState, SinkState, request_body, request_start_time, api_url, headers, http_calls, events,
                   result, now, total_time_us, blocks, frames, finish_reason,
                   usage_stats, usage_input, usage_output>>

SummaryClaudeRecvChunk ==
    /\ path = SummaryClaudePath /\ pc = "streaming"
    /\ find_blank_line(buffer) = 0
    /\ wire # <<>>
    /\ \E n \in 1..Len(wire) :
          /\ buffer' = buffer \o from_utf8_lossy(SubSeq(wire, 1, n))
          /\ wire' = SubSeq(wire, n + 1, Len(wire))
    /\ UNCHANGED <<Config, CommandState, StoreState, SinkState, request_body, request_start_time, accumulated_content, api_url, headers,
                   http_calls, response, events, result, pc, finish_reason,
                   usage_stats, usage_input, usage_output, ttft_us,
                   first_token_received, now, total_time_us, blocks, frames>>

SummaryClaudeLocals ==
    [accumulated_content |-> accumulated_content, ttft_us |-> ttft_us,
     first_token_received |-> first_token_received, parsed |-> <<>>, err |-> None]

\* the last data line of the block; every other line is passed over
RECURSIVE LastSummaryDataLine(_, _)
LastSummaryDataLine(ls, data) ==
    IF ls = <<>> THEN data
    ELSE IF starts_with(Head(ls), DataPrefix)
         THEN LastSummaryDataLine(Tail(ls), Some(Tail(Head(ls))))
    ELSE LastSummaryDataLine(Tail(ls), data)

\* the match on the parsed ClaudeStreamEvent
HandleSummaryClaudeEvent(st, data_str, t) ==
    LET e == ParseClaudeStreamEvent(data_str)
        logged == [st EXCEPT !.parsed = Append(@, data_str)]
    IN IF ~e.ok THEN logged
       ELSE CASE e.type = "content_block_delta" ->
                   [logged EXCEPT
                      !.ttft_us = IF ~logged.first_token_received /\ e.text # <<>>
                                  THEN Some(t) ELSE @,
                      !.first_token_received = @ \/ e.text # <<>>,
                      !.accumulated_content = @ \o e.text]
              [] e.type = "error" ->
                   [logged EXCEPT !.err = Some(<<"Claude error: ", e.message>>)]
              [] OTHER -> logged

SummaryClaudeProcessBlock ==
    /\ path = SummaryClaudePath /\ pc = "streaming"
    /\ find_blank_line(buffer) > 0
    /\ LET line_end == find_blank_line(buffer)
           block == SubSeq(buffer, 1, line_end - 1)
           data == LastSummaryDataLine(lines(block), None)
       IN \E t \in now..MaxTime :
            LET st == IF IsSome(data)
                      THEN HandleSummaryClaudeEvent(SummaryClaudeLocals, Unwrap(data), t)
                      ELSE SummaryClaudeLocals
            IN /\ (st.ttft_us = ttft_us => t = now)
               /\ now' = t
               /\ buffer' = SubSeq(buffer, line_end + 2, Len(buffer))
               /\ blocks' = Append(blocks, block)
               /\ frames' = frames \o st.parsed
               /\ accumulated_content' = st.accumulated_content
               /\ ttft_us' = st.ttft_us
               /\ first_token_received' = st.first_token_received
               /\ IF IsSome(st.err) THEN FailSummary(Unwrap(st.err))
                  ELSE UNCHANGED <<pc, result>>
    /\ UNCHANGED <<Config, CommandState, StoreState, SinkState, request_body, request_start_time, api_url, headers, http_calls, response,
                   wire, events, total_time_us, finish_reason, usage_stats,
                   usage_input, usage_output>>

SummaryClaudeStreamError ==
    /\ path = SummaryClaudePath /\ pc = "streaming"
    /\ find_blank_line(buffer) = 0
    /\ FailSummary(<<"Claude stream error: ", "connection reset">>)
    /\ UNCHANGED <<Config, CommandState, StoreState, SinkState, request_body, request_start_time, accumulated_content, StreamingLocals,
                   wire, api_url, headers, http_calls, response, events>>

SummaryClaudeStreamEnd ==
    /\ path = SummaryClaudePath /\ pc = "streaming"
    /\ find_blank_line(buffer) = 0
    /\ wire = <<>>
    /\ \E t \in now..MaxTime :
          /\ now' = t
          /\ total_time_us' = Some(t)
          /\ result' = Some([ok |-> TRUE, err |-> <<>>,
                             content |-> accumulated_content,
                             ttft_us |-> ttft_us, total_time_us |-> t])
    /\ pc' = "completed"
    /\ UNCHANGED <<Config, CommandState, StoreState, SinkState, request_body, request_start_time, accumulated_content, api_url, headers,
                   http_calls, response, wire, buffer, events, finish_reason,
                   usage_stats, usage_input, usage_output, ttft_us,
                   first_token_received, blocks, frames>>

\* the requests made through stream_chat and through generate_summary
InitAllPaths == InitRequest({"chat"} \cup SummaryPaths)

NextAllPaths ==
    \/ Next
    \/ SummaryStart
    \/ SummarySendFails
    \/ SummaryResponseNotSuccess
    \/ SummaryResponseParsed
    \/ SummaryStreamingResponseSuccess
    \/ SummaryRecvChunk
    \/ SummaryProcessBlock
    \/ SummaryStreamError
    \/ SummaryStreamEnd

SpecAllPaths == InitAllPaths /\ [][NextAllPaths]_vars

(***************************************************************************)
(* The four streaming handlers with long responses, next to the requests   *)
(* of every provider with short ones.                                      *)
(***************************************************************************)
InitStreaming ==
    \/ InitRequest({"chat"} \cup SummaryPaths)
    \/ InitStream({"chat"})
    \/ InitWith({"summary_streaming"}, {"OpenAI"}, {ValidKey}, {None}, {None},
                MaxBlocksSummary)
    \/ InitWith({SummaryClaudePath}, {"Claude"}, {ValidKey, ControlCharKey}, {None},
                {None}, MaxBlocksSummary)

NextStreaming ==
    \/ NextAllPaths
    \/ SummaryClaudeStart
    \/ SummaryClaudeSendFails
    \/ SummaryClaudeResponseNotSuccess
    \/ SummaryClaudeResponseSuccess
    \/ SummaryClaudeRecvChunk
    \/ SummaryClaudeProcessBlock
    \/ SummaryClaudeStreamError
    \/ SummaryClaudeStreamEnd

SpecStreaming == InitStreaming /\ [][NextStreaming]_vars

(***************************************************************************)
(* chat/processor.rs.  rough_token_count and chunk_text live in            *)
(* summary/processor.rs and METADATA_CACHE in ollama/metadata.rs: they are *)
(* modelled from their description.  A text is a stretch first..last of    *)
(* estimated tokens, so that a chunk is a stretch of the transcript.       *)
(***************************************************************************)
rough_token_count(text) == IF text.last >= text.first THEN text.last - text.first + 1 ELSE 0

\* chunks of at most budget tokens, each starting overlap tokens before the
\* end of the one before; a unit that alone exceeds the budget is kept whole;
\* one chunk for a text within the budget, none for the empty text
chunk_text(text, budget, overlap) ==
    LET size == IF budget >= 1 THEN budget ELSE 1
        step == IF size > overlap THEN size - overlap ELSE 1
        len == rough_token_count(text)
        count == IF len = 0 THEN 0
                 ELSE IF len <= size THEN 1
                 ELSE 1 + ((len - size + step - 1) \div step)
    IN [i \in 1..count |->
          [first |-> text.first + (i - 1) * step,
           last |-> IF text.first + (i - 1) * step + size - 1 < text.last
                    THEN text.first + (i - 1) * step + size - 1
                    ELSE text.last]]

\* METADATA_CACHE.get_or_fetch: the cached entry, or one fetch from the server
\* that gives the context size of the model or fails
ContextSizes == {0, 200, 500, 600, 4096}
get_or_fetch(cache) ==
    IF IsSome(cache)
    THEN {[ok |-> TRUE, context_size |-> Unwrap(cache), fetched |-> FALSE]}
    ELSE {[ok |-> TRUE, context_size |-> c, fetched |-> TRUE] : c \in ContextSizes}
         \cup {[ok |-> FALSE, context_size |-> 0, fetched |-> TRUE]}

\* usize: the model keeps 30 of its bits; every count of the program is far
\* below.  A subtraction that overflows panics in a build with overflow
\* checks and wraps in a build without.
USizeModulus == 1073741824
saturating_sub(a, b) == IF a >= b THEN a - b ELSE 0
USizeSub(a, b) ==
    IF a >= b THEN {[panic |-> FALSE, value |-> a - b]}
    ELSE {[panic |-> TRUE, value |-> 0],
          [panic |-> FALSE, value |-> a - b + USizeModulus]}

\* the threshold with no reserve taken off the context size
TokenThresholdForPrompt_NoReserve(p, md) ==
    IF p = "Ollama"
    THEN IF md.ok THEN md.context_size ELSE 4000
    ELSE 100000

\* build_chat_system_prompt, `let token_threshold = ...`
TokenThresholdForPrompt(p, md) ==
    IF p = "Ollama"
    THEN IF md.ok THEN saturating_sub(md.context_size, 300) ELSE 4000
    ELSE 100000

\* get_transcript_chunk_for_chat, `let token_threshold = ...`
TokenThresholdForChunk(p, md) ==
    IF p = "Ollama"
    THEN (IF md.ok
          THEN LET optimal == saturating_sub(md.context_size, 300) IN optimal
          ELSE 4000)
    ELSE 100000

\* get_transcript_chunk_for_chat after the threshold: the text it returns,
\* or a panic of the subtraction
TranscriptChunkOutcomes(text, p, threshold) ==
    LET total_tokens == rough_token_count(text)
    IN IF p # "Ollama" \/ total_tokens < threshold
       THEN {[panic |-> FALSE, text |-> text]}
       ELSE {IF b.panic THEN [panic |-> TRUE, text |-> text]
             ELSE LET chunks == chunk_text(text, b.value, 100)
                  IN [panic |-> FALSE,
                      text |-> IF chunks = <<>> THEN text ELSE chunks[1]]
             : b \in USizeSub(threshold, 300)}

\* the name a text goes by inside a prompt
TextName(text) == ToString(text)
MeetingTitle == "Weekly sync"
MeetingDate == "2025-01-01"
build_chat_prompt_suffix(title, date, reference_text) ==
    <<LF, LF, "You are a helpful AI assistant analyzing a meeting transcript. Here is the meeting information:",
      LF, LF, "Title: ", title, LF, "Date: ", date, LF, LF,
      "Please answer the user's questions based on the ", reference_text,
      " above. Be concise and accurate in your responses.">>

\* build_chat_system_prompt chunking with the whole threshold as the budget
SystemPromptOutcomes_WholeThreshold(text, p, threshold) ==
    LET total_tokens == rough_token_count(text)
    IN IF p # "Ollama" \/ total_tokens < threshold
       THEN {[panic |-> FALSE,
              prompt |-> <<"<transcript_chunks>", LF, TextName(text), LF,
                           "</transcript_chunks>">>
                         \o build_chat_prompt_suffix(MeetingTitle, MeetingDate,
                                                     "transcript")]}
       ELSE {LET chunks == chunk_text(text, threshold, 100)
                 first_chunk == IF chunks = <<>> THEN text ELSE chunks[1]
             IN [panic |-> FALSE,
                 prompt |-> <<"<transcript_chunk>", LF, TextName(first_chunk), LF,
                              "</transcript_chunk>">>
                            \o build_chat_prompt_suffix(MeetingTitle, MeetingDate,
                                                        "transcript chunk")]}

\* build_chat_system_prompt after the threshold: the prompt, or a panic
SystemPromptOutcomes(text, p, threshold) ==
    LET total_tokens == rough_token_count(text)
    IN IF p # "Ollama" \/ total_tokens < threshold
       THEN {[panic |-> FALSE,
              prompt |-> <<"<transcript_chunks>", LF, TextName(text), LF,
                           "</transcript_chunks>">>
                         \o build_chat_prompt_suffix(MeetingTitle, MeetingDate,
                                                     "transcript")]}
       ELSE {IF b.panic THEN [panic |-> TRUE, prompt |-> <<>>]
             ELSE LET chunks == chunk_text(text, b.value, 100)
                      first_chunk == IF chunks = <<>> THEN text ELSE chunks[1]
                  IN [panic |-> FALSE,
                      prompt |-> <<"<transcript_chunk>", LF, TextName(first_chunk), LF,
                                   "</transcript_chunk>">>
                                 \o build_chat_prompt_suffix(MeetingTitle, MeetingDate,
                                                             "transcript chunk")]
             : b \in USizeSub(threshold, 300)}

ChatMessage(role, content) == [role |-> role, content |-> content]

\* the current message put before the history
build_chat_messages_CurrentFirst(prompt, user_messages, current_message) ==
    <<ChatMessage("system", prompt), ChatMessage("user", current_message)>>
    \o user_messages

\* build_chat_messages, given the system prompt
build_chat_messages(prompt, user_messages, current_message) ==
    <<ChatMessage("system", prompt)>> \o user_messages
    \o <<ChatMessage("user", current_message)>>

Ok == [ok |-> TRUE, err |-> <<>>]
Err(e) == [ok |-> FALSE, err |-> e]

\* the loop testing content.is_empty() without the trim
RECURSIVE ValidateEach_Untrimmed(_)
ValidateEach_Untrimmed(ms) ==
    IF ms = <<>> THEN Ok
    ELSE IF Head(ms).role # "user" /\ Head(ms).role # "assistant"
            /\ Head(ms).role # "system"
         THEN Err(<<"Invalid message role: ", Head(ms).role>>)
    ELSE IF Head(ms).content = <<>>
         THEN Err(<<"Message content cannot be empty">>)
    ELSE ValidateEach_Untrimmed(Tail(ms))

\* validate_chat_messages, `for msg in messages`
RECURSIVE ValidateEach(_)
ValidateEach(ms) ==
    IF ms = <<>> THEN Ok
    ELSE IF Head(ms).role # "user" /\ Head(ms).role # "assistant"
            /\ Head(ms).role # "system"
         THEN Err(<<"Invalid message role: ", Head(ms).role>>)
    ELSE IF trim(Head(ms).content) = <<>>
         THEN Err(<<"Message content cannot be empty">>)
    ELSE ValidateEach(Tail(ms))

validate_chat_messages(ms) ==
    IF ms = <<>> THEN Err(<<"Message list cannot be empty">>) ELSE ValidateEach(ms)

(***************************************************************************)
(* Calls of validate_chat_messages and get_transcript_chunk_for_chat.      *)
(***************************************************************************)
\* everything stream_chat and generate_summary work on, before any of them runs
StreamIdle ==
    /\ api_key = "" /\ ollama_endpoint = None /\ openai_compatible_endpoint = None
    /\ body = <<>> /\ pc = "idle"
    /\ api_url = None /\ headers = {} /\ http_calls = 0 /\ response = None
    /\ wire = <<>> /\ buffer = <<>>
    /\ finish_reason = None /\ usage_stats = None
    /\ usage_input = None /\ usage_output = None
    /\ ttft_us = None /\ first_token_received = FALSE
    /\ accumulated_content = <<>>
    /\ now = 0 /\ total_time_us = None /\ request_start_time = None
    /\ events = <<>> /\ result = None /\ request_body = None
    /\ blocks = <<>> /\ frames = <<>> /\ SinkIdle

StreamState ==
    <<api_url, headers, http_calls, response, wire, buffer, finish_reason,
      usage_stats, usage_input, usage_output, ttft_us, first_token_received,
      accumulated_content, now, events, result, total_time_us,
      request_start_time, request_body, blocks, frames>>

ValidateCall ==
    /\ path = "validate" /\ cmd_pc = "called"
    /\ validation' = Some(validate_chat_messages(messages))
    /\ cmd_result' = validation'
    /\ cmd_pc' = "returned"
    /\ UNCHANGED <<Config, StoreState, SinkState, StreamState, pc, request, meeting_lookup, transcript_text,
                   metadata_cache, metadata_fetches, metadata, token_threshold,
                   messages>>

\* the lookup of the context size, made for Ollama only
LookupMetadata(md) ==
    IF provider = "Ollama"
    THEN /\ md \in get_or_fetch(metadata_cache)
         /\ metadata' = Some(md)
         /\ metadata_fetches' = metadata_fetches + (IF md.fetched THEN 1 ELSE 0)
         /\ metadata_cache' = IF md.ok THEN Some(md.context_size) ELSE metadata_cache
    ELSE /\ md = [ok |-> FALSE, context_size |-> 0, fetched |-> FALSE]
         /\ UNCHANGED <<metadata, metadata_fetches, metadata_cache>>

LookupResults ==
    [ok : BOOLEAN, context_size : ContextSizes \cup {4096, 500, 0}, fetched : BOOLEAN]

\* get_transcript_chunk_for_chat up to its token_threshold
TranscriptChunkThreshold ==
    /\ path = "transcript_chunk" /\ cmd_pc = "called"
    /\ \E md \in LookupResults :
          /\ LookupMetadata(md)
          /\ token_threshold' = Some(TokenThresholdForChunk(provider, md))
    /\ cmd_pc' = "threshold"
    /\ UNCHANGED <<Config, StoreState, SinkState, StreamState, pc, request, meeting_lookup, transcript_text,
                   messages, validation, cmd_result>>

\* get_transcript_chunk_for_chat from `let total_tokens` to its return
TranscriptChunkReturn ==
    /\ path = "transcript_chunk" /\ cmd_pc = "threshold"
    /\ \E o \in TranscriptChunkOutcomes(transcript_text, provider, Unwrap(token_threshold)) :
          IF o.panic
          THEN cmd_pc' = "panicked" /\ UNCHANGED cmd_result
          ELSE cmd_pc' = "returned" /\ cmd_result' = Some([ok |-> TRUE, value |-> o.text])
    /\ UNCHANGED <<Config, StoreState, SinkState, StreamState, pc, request, meeting_lookup, transcript_text,
                   metadata_cache, metadata_fetches, metadata, token_threshold,
                   messages, validation>>

(***************************************************************************)
(* api_chat_send_message (chat/commands.rs).                               *)
(***************************************************************************)
\* `match request.provider.as_str()`
ParseProviderString(str) ==
    CASE str = "openai" -> Some("OpenAI")
      [] str = "claude" -> Some("Claude")
      [] str = "groq" -> Some("Groq")
      [] str = "ollama" -> Some("Ollama")
      [] str = "openrouter" -> Some("OpenRouter")
      [] str = "openai-compatible" -> Some("OpenAICompatible")
      [] OTHER -> None

CommandReturns(value) ==
    /\ cmd_result' = Some(value)
    /\ cmd_pc' = "returned"

\* get_meeting(..).await and the match on the provider string
CmdGetMeeting ==
    /\ path = "chat" /\ cmd_pc = "called"
    /\ CASE meeting_lookup = "db_error" ->
              /\ CommandReturns(Err(<<"Failed to get meeting: ", "database is locked">>))
              /\ UNCHANGED provider
         [] meeting_lookup = "missing" ->
              /\ CommandReturns(Err(<<"Meeting not found: ", RequestId>>))
              /\ UNCHANGED provider
         [] OTHER ->
              IF IsSome(ParseProviderString(request.provider))
              THEN /\ provider' = Unwrap(ParseProviderString(request.provider))
                   /\ cmd_pc' = "meeting"
                   /\ UNCHANGED cmd_result
              ELSE /\ CommandReturns(Err(<<"Unsupported provider: ", request.provider>>))
                   /\ UNCHANGED provider
    /\ UNCHANGED <<StoreState, SinkState, StreamState, pc, path, api_key, ollama_endpoint,
                   openai_compatible_endpoint, body, request, meeting_lookup,
                   transcript_text, metadata_cache, metadata_fetches, metadata,
                   token_threshold, messages, validation>>

\* the transcript, the two endpoints, and build_chat_system_prompt up to its
\* token_threshold
CmdLookupContext ==
    /\ path = "chat" /\ cmd_pc = "meeting"
    /\ ollama_endpoint' = IF provider = "Ollama" THEN request.endpoint ELSE None
    /\ openai_compatible_endpoint' =
          IF provider = "OpenAICompatible" THEN request.endpoint ELSE None
    /\ \E md \in LookupResults :
          /\ LookupMetadata(md)
          /\ token_threshold' = Some(TokenThresholdForPrompt(provider, md))
    /\ cmd_pc' = "threshold"
    /\ UNCHANGED <<StoreState, SinkState, StreamState, pc, path, provider, api_key, body, request,
                   meeting_lookup, transcript_text, messages, validation, cmd_result>>

\* the response of the server once the request is under way
CommandBodies(p) ==
    {<<>>,
     IF p = "Claude" THEN <<DataPrefix, TextOpen, "a", TextClose, LF, LF>>
     ELSE <<DataPrefix, ContentOpen, "a", CloseNoFinish, LF, LF>>}

\* the rest of build_chat_messages, validate_chat_messages, the API key and
\* the spawn of the task that runs stream_chat
CmdBuildValidateSpawn ==
    /\ path = "chat" /\ cmd_pc = "threshold"
    /\ \E o \in SystemPromptOutcomes(transcript_text, provider, Unwrap(token_threshold)) :
          IF o.panic
          THEN /\ cmd_pc' = "panicked"
               /\ UNCHANGED <<messages, validation, cmd_result, api_key, pc, body>>
          ELSE LET built == build_chat_messages(o.prompt, request.user_messages,
                                                request.current_message)
                   valid == validate_chat_messages(built)
               IN /\ messages' = built
                  /\ validation' = Some(valid)
                  /\ IF ~valid.ok
                     THEN /\ CommandReturns(valid)
                          /\ UNCHANGED <<api_key, pc, body>>
                     ELSE IF request.api_key = None /\ provider # "Ollama"
                     THEN /\ CommandReturns(Err(<<"API key is required for this provider">>))
                          /\ UNCHANGED <<api_key, pc, body>>
                     ELSE /\ api_key' = IF IsSome(request.api_key)
                                        THEN Unwrap(request.api_key) ELSE ""
                          /\ body' \in CommandBodies(provider)
                          /\ pc' = "start"
                          /\ CommandReturns(Ok)
    /\ UNCHANGED <<StoreState, SinkState, StreamState, path, provider, ollama_endpoint,
                   openai_compatible_endpoint, request, meeting_lookup,
                   transcript_text, metadata_cache, metadata_fetches, metadata,
                   token_threshold>>

\* inputs
MaxMessages == 2
Roles == {"system", "user", "assistant", "tool", "User"}
Contents == {<<>>, <<SP, TAB>>, <<"a">>, <<LF, "a", SP>>}
RECURSIVE MessageLists(_)
MessageLists(n) ==
    IF n = 0 THEN {<<>>}
    ELSE LET shorter == MessageLists(n - 1)
         IN shorter \cup {Append(ms, ChatMessage(r, c)) : ms \in shorter, r \in Roles,
                                                          c \in Contents}

ProviderStrings ==
    {"openai", "claude", "groq", "ollama", "openrouter", "openai-compatible",
     "OpenAI", "gemini"}
Histories ==
    {<<>>, <<ChatMessage("user", <<"a">>), ChatMessage("assistant", <<"b">>)>>,
     <<ChatMessage("tool", <<"a">>)>>,
     <<ChatMessage("system", <<"b">>), ChatMessage("user", <<"a">>)>>}
CurrentMessages == {<<>>, <<SP, LF>>, <<"a">>}
Requests ==
    [provider : ProviderStrings, api_key : {None, Some(""), Some(ValidKey)},
     endpoint : {None, Some(Host)}, user_messages : Histories,
     current_message : CurrentMessages, max_tokens : {None, Some(256)}]
CachedSizes == {None, Some(4096), Some(500)}

InitValidate ==
    /\ path = "validate" /\ provider = "OpenAI" /\ StreamIdle /\ StoreIdle
    /\ request = NoRequest /\ meeting_lookup = "none" /\ transcript_text = Text(0)
    /\ metadata_cache = None /\ metadata_fetches = 0 /\ metadata = None
    /\ token_threshold = None /\ validation = None /\ cmd_result = None
    /\ messages \in MessageLists(MaxMessages)
    /\ cmd_pc = "called"

InitTranscriptChunk ==
    /\ path = "transcript_chunk" /\ provider \in Providers /\ StreamIdle /\ StoreIdle
    /\ request = NoRequest /\ meeting_lookup = "none"
    /\ transcript_text \in {Text(n) : n \in {0, 100, 199, 200, 300, 3795, 3796, 5000,
                                             100000, 150000}}
    /\ metadata_cache \in CachedSizes
    /\ metadata_fetches = 0 /\ metadata = None
    /\ token_threshold = None /\ validation = None /\ cmd_result = None
    /\ messages = <<>>
    /\ cmd_pc = "called"

InitCommand ==
    /\ path = "chat" /\ provider = "Unparsed" /\ StreamIdle /\ StoreIdle
    /\ request \in Requests
    /\ meeting_lookup \in {"found", "missing", "db_error"}
    /\ transcript_text \in {Text(n) : n \in {0, 250, 5000}}
    /\ metadata_cache \in CachedSizes
    /\ metadata_fetches = 0 /\ metadata = None
    /\ token_threshold = None /\ validation = None /\ cmd_result = None
    /\ messages = <<>>
    /\ cmd_pc = "called"

\* stream_chat called with a message list of its caller
InitStreamChat ==
    /\ path = "chat" /\ provider \in {"Claude", "OpenAI"}
    /\ api_key \in {ValidKey, ControlCharKey}
    /\ ollama_endpoint = None /\ openai_compatible_endpoint = None
    /\ body = <<>> /\ pc = "start"
    /\ api_url = None /\ headers = {} /\ http_calls = 0 /\ response = None
    /\ wire = <<>> /\ buffer = <<>>
    /\ finish_reason = None /\ usage_stats = None
    /\ usage_input = None /\ usage_output = None
    /\ ttft_us = None /\ first_token_received = FALSE
    /\ accumulated_content = <<>>
    /\ now = 0 /\ total_time_us = None /\ request_start_time = None
    /\ events = <<>> /\ result = None /\ request_body = None
    /\ blocks = <<>> /\ frames = <<>> /\ SinkIdle
    /\ StoreIdle
    /\ request \in {[NoRequest EXCEPT !.max_tokens = m] : m \in {None, Some(256)}}
    /\ meeting_lookup = "none" /\ transcript_text = Text(0)
    /\ metadata_cache = None /\ metadata_fetches = 0 /\ metadata = None
    /\ token_threshold = None /\ validation = None /\ cmd_result = None
    /\ messages \in MessageLists(MaxMessages)
    /\ cmd_pc = "idle"

InitProcessor == InitValidate \/ InitTranscriptChunk \/ InitCommand \/ InitStreamChat

NextProcessor ==
    \/ ValidateCall
    \/ TranscriptChunkThreshold
    \/ TranscriptChunkReturn
    \/ CmdGetMeeting
    \/ CmdLookupContext
    \/ CmdBuildValidateSpawn
    \/ Next

SpecProcessor == InitProcessor /\ [][NextProcessor]_vars

(***************************************************************************)
(* parse_lrc (lrc/mod.rs).  Its input is a sequence of characters; a time  *)
(* is kept in hundredths of a second.                                      *)
(***************************************************************************)
AsciiDigits == {"0", "1", "2", "3", "4", "5", "6", "7", "8", "9"}
\* a decimal digit that is not an ASCII digit
ArabicIndicThree == "U+0663"
\* \d of the regex crate: every Unicode decimal digit
IsDigit(c) == c \in AsciiDigits \cup {ArabicIndicThree}
DigitValue(c) == CHOOSE n \in 0..9 : ToString(n) = c

RECURSIVE DigitRun(_)
DigitRun(s) == IF s # <<>> /\ IsDigit(Head(s)) THEN 1 + DigitRun(Tail(s)) ELSE 0

\* timestamp_regex.captures(line) for ^\[(\d+):(\d{2})\.?(\d{0,2})\](.*)$
timestamp_captures(line) ==
    IF line = <<>> \/ Head(line) # "[" THEN None
    ELSE LET a == Tail(line)
             n1 == DigitRun(a)
         IN IF n1 = 0 \/ Len(a) < n1 + 1 \/ a[n1 + 1] # ":" THEN None
            ELSE LET b == SubSeq(a, n1 + 2, Len(a))
                 IN IF DigitRun(b) < 2 THEN None
                    ELSE LET c == SubSeq(b, 3, Len(b))
                             d == IF c # <<>> /\ Head(c) = "." THEN Tail(c) ELSE c
                             n3 == DigitRun(d)
                         IN IF n3 > 2 \/ Len(d) < n3 + 1 \/ d[n3 + 1] # "]" THEN None
                            ELSE Some([minutes |-> SubSeq(a, 1, n1),
                                       seconds |-> SubSeq(b, 1, 2),
                                       centiseconds |-> SubSeq(d, 1, n3),
                                       text |-> SubSeq(d, n3 + 2, Len(d))])

RECURSIVE StripZeros(_)
StripZeros(ds) == IF Len(ds) > 1 /\ Head(ds) = "0" THEN StripZeros(Tail(ds)) ELSE ds
RECURSIVE DecimalValue(_)
DecimalValue(ds) ==
    IF ds = <<>> THEN 0
    ELSE DecimalValue(SubSeq(ds, 1, Len(ds) - 1)) * 10 + DigitValue(ds[Len(ds)])

\* str::parse::<u32>() of a run of digits: ASCII digits only, at most u32::MAX
ParseU32(ds) ==
    IF ds = <<>> \/ \E i \in DOMAIN ds : ds[i] \notin AsciiDigits THEN None
    ELSE LET sig == StripZeros(ds)
         IN IF Len(sig) > 10 THEN None
            ELSE IF Len(sig) = 10
                    /\ \/ DecimalValue(SubSeq(sig, 1, 9)) > 429496729
                       \/ /\ DecimalValue(SubSeq(sig, 1, 9)) = 429496729
                          /\ DigitValue(sig[10]) > 5
            THEN None
            ELSE Some(DecimalValue(sig))

\* minutes * 60 on u32: beyond u32::MAX a panic in a build with overflow
\* checks, the low 32 bits of the product in a build without
U32Mul60(minutes, overflow_checks) ==
    IF minutes <= 71582788 THEN [panic |-> FALSE, value |-> minutes * 60]
    ELSE IF overflow_checks THEN [panic |-> TRUE, value |-> 0]
    ELSE LET low == (minutes % 65536) * 60
             high == (((minutes \div 65536) * 60) + (low \div 65536)) % 65536
         IN [panic |-> FALSE, value |-> (high * 65536) + (low % 65536)]

StartsWith(line, prefix) ==
    Len(line) >= Len(prefix) /\ SubSeq(line, 1, Len(prefix)) = prefix

RECURSIVE trim_end_matches_bracket(_)
trim_end_matches_bracket(s) ==
    IF s # <<>> /\ s[Len(s)] = "]"
    THEN trim_end_matches_bracket(SubSeq(s, 1, Len(s) - 1)) ELSE s

extract_metadata_value(line) ==
    LET hits == {i \in DOMAIN line : line[i] = ":"}
        pos == CHOOSE i \in hits : \A j \in hits : i <= j
    IN IF hits = {} THEN None
       ELSE LET value == trim(trim_end_matches_bracket(SubSeq(line, pos + 1, Len(line))))
            IN IF value = <<>> THEN None ELSE Some(value)

LrcMetadataDefault ==
    [title |-> None, artist |-> None, album |-> None, author |-> None, length |-> None]

LrcStart == [panic |-> FALSE, err |-> None, lines |-> <<>>, metadata |-> LrcMetadataDefault]

LrcTimestampLine(st, cap, overflow_checks) ==
    LET minutes == ParseU32(cap.minutes)
        seconds == ParseU32(cap.seconds)
    IN IF minutes = None
       THEN [st EXCEPT !.err = Some(<<"Invalid minutes in timestamp">>)]
       ELSE IF seconds = None
       THEN [st EXCEPT !.err = Some(<<"Invalid seconds in timestamp">>)]
       ELSE LET padded == IF Len(cap.centiseconds) = 1
                          THEN cap.centiseconds \o <<"0">> ELSE cap.centiseconds
                centiseconds == IF cap.centiseconds = <<>> \/ ParseU32(padded) = None
                                THEN 0 ELSE Unwrap(ParseU32(padded))
                text == trim(cap.text)
                product == U32Mul60(Unwrap(minutes), overflow_checks)
            IN IF text = <<>> THEN st
               ELSE IF product.panic THEN [st EXCEPT !.panic = TRUE]
               ELSE [st EXCEPT !.lines =
                        Append(@, [time_seconds |-> 100 * (product.value + Unwrap(seconds))
                                                    + centiseconds,
                                   text |-> text])]

\* parse_lrc, the body of `for line in content.lines()`
LrcLineStep(st, raw, overflow_checks) ==
    LET line == trim(raw)
    IN IF line = <<>> THEN st
       ELSE IF StartsWith(line, <<"[", "t", "i", ":">>)
       THEN [st EXCEPT !.metadata.title = extract_metadata_value(line)]
       ELSE IF StartsWith(line, <<"[", "a", "r", ":">>)
       THEN [st EXCEPT !.metadata.artist = extract_metadata_value(line)]
       ELSE IF StartsWith(line, <<"[", "a", "l", ":">>)
       THEN [st EXCEPT !.metadata.album = extract_metadata_value(line)]
       ELSE IF StartsWith(line, <<"[", "a", "u", ":">>)
       THEN [st EXCEPT !.metadata.author = extract_metadata_value(line)]
       ELSE IF StartsWith(line, <<"[", "l", "e", "n", "g", "t", "h", ":">>)
       THEN [st EXCEPT !.metadata.length = extract_metadata_value(line)]
       ELSE IF IsSome(timestamp_captures(line))
       THEN LrcTimestampLine(st, Unwrap(timestamp_captures(line)), overflow_checks)
       ELSE st

\* the loop; `?` and a panic leave it at once
RECURSIVE LrcLoop(_, _, _)
LrcLoop(st, ls, overflow_checks) ==
    IF ls = <<>> \/ st.panic \/ IsSome(st.err) THEN st
    ELSE LrcLoop(LrcLineStep(st, Head(ls), overflow_checks), Tail(ls), overflow_checks)

\* lines.sort_by(time_seconds): a stable sort
RECURSIVE InsertByTime(_, _)
InsertByTime(sorted, e) ==
    IF sorted = <<>> THEN <<e>>
    ELSE IF sorted[Len(sorted)].time_seconds <= e.time_seconds THEN Append(sorted, e)
    ELSE Append(InsertByTime(SubSeq(sorted, 1, Len(sorted) - 1), e), sorted[Len(sorted)])
RECURSIVE SortByTime(_)
SortByTime(es) ==
    IF es = <<>> THEN <<>>
    ELSE InsertByTime(SortByTime(SubSeq(es, 1, Len(es) - 1)), es[Len(es)])

parse_lrc(content, overflow_checks) ==
    LET st == LrcLoop(LrcStart, lines(content), overflow_checks)
    IN IF st.panic THEN [panic |-> TRUE, ok |-> FALSE, err |-> <<>>, lines |-> <<>>,
                         metadata |-> LrcMetadataDefault]
       ELSE IF IsSome(st.err)
       THEN [panic |-> FALSE, ok |-> FALSE, err |-> Unwrap(st.err), lines |-> <<>>,
             metadata |-> LrcMetadataDefault]
       ELSE IF st.lines = <<>>
       THEN [panic |-> FALSE, ok |-> FALSE, err |-> <<"No valid LRC lines found in file">>,
             lines |-> <<>>, metadata |-> LrcMetadataDefault]
       ELSE [panic |-> FALSE, ok |-> TRUE, err |-> <<>>, lines |-> SortByTime(st.lines),
             metadata |-> st.metadata]

ParseLrcCall ==
    /\ path = "parse_lrc" /\ cmd_pc = "called"
    /\ \E overflow_checks \in BOOLEAN :
          LET r == parse_lrc(lrc_content, overflow_checks)
          IN /\ cmd_result' = Some(r)
             /\ cmd_pc' = IF r.panic THEN "panicked" ELSE "returned"
    /\ UNCHANGED <<Config, StreamState, pc, request, meeting_lookup, transcript_text,
                   metadata_cache, metadata_fetches, metadata, token_threshold,
                   messages, validation, lrc_content, meetings, chat_messages,
                   transcript_chunks, utc_now, db_last, SinkState>>

\* inputs: lines of an LRC file
LrcLinesCatalogue ==
    {<<"[", "0", "0", ":", "1", "2", ".", "5", "0", "]", "a">>,
     <<SP, "[", "0", "1", ":", "0", "5", "]", SP, "b", SP>>,
     <<"[", "0", "0", ":", "0", "3", ".", "0", "0", "]", SP>>,
     <<"[", "0", "0", ":", "0", "7", ".", "5", "]", "c">>,
     <<"[", "1", "0", "0", ":", "0", "0", ".", "0", "0", "]", "d">>,
     <<"[", "t", "i", ":", "T", "]">>,
     <<"[", "a", "r", ":", "]">>,
     <<"[", "l", "e", "n", "g", "t", "h", ":", "0", "3", ":", "4", "5", "]">>,
     <<"h", "i">>,
     <<>>,
     <<"[", "4", "2", "9", "4", "9", "6", "7", "2", "9", "6", ":", "0", "0", "]", "x">>,
     <<"[", "7", "1", "5", "8", "2", "7", "8", "9", ":", "0", "0", "]", "x">>,
     <<"[", ArabicIndicThree, ":", "1", "2", "]", "x">>}

MaxLrcLines == 2
RECURSIVE LrcContents(_)
LrcContents(n) ==
    IF n = 0 THEN {<<>>}
    ELSE LET shorter == LrcContents(n - 1)
         IN shorter \cup {l : l \in LrcLinesCatalogue}
                    \cup {c \o <<LF>> \o l : c \in shorter \ {<<>>}, l \in LrcLinesCatalogue}

InitParseLrc ==
    /\ path = "parse_lrc" /\ provider = "OpenAI" /\ StreamIdle
    /\ request = NoRequest /\ meeting_lookup = "none" /\ transcript_text = Text(0)
    /\ metadata_cache = None /\ metadata_fetches = 0 /\ metadata = None
    /\ token_threshold = None /\ validation = None /\ cmd_result = None
    /\ messages = <<>>
    /\ lrc_content \in LrcContents(MaxLrcLines)
    /\ meetings = {} /\ chat_messages = {} /\ transcript_chunks = {}
    /\ utc_now = 0 /\ db_last = None
    /\ cmd_pc = "called"

(***************************************************************************)
(* TranscriptChunksRepository and ChatMessagesRepository.  Every call is   *)
(* one statement or one transaction of the database; a call can fail with  *)
(* an error of the database, which leaves the tables as they were.         *)
(***************************************************************************)
MaxClock == 3
MaxUuids == 2
MeetingIds == {"meeting-1", "meeting-2"}
TranscriptTexts == {"first transcript", "second transcript"}
\* what a column not named in an INSERT holds: no value of the caller
ColumnDefault == None

CommandVars ==
    <<request, meeting_lookup, transcript_text, metadata_cache, metadata_fetches,
      metadata, token_threshold, messages, validation, cmd_pc, cmd_result>>

ChunkRowOf(meeting_id) ==
    {r \in transcript_chunks : r.meeting_id = meeting_id}

DbCall(op, meeting_id, ok, value) ==
    Some([op |-> op, meeting_id |-> meeting_id, ok |-> ok, value |-> value,
          chat_messages |-> chat_messages, transcript_chunks |-> transcript_chunks])

\* INSERT .. ON CONFLICT(meeting_id) DO UPDATE SET of every column
SaveTranscriptData ==
    /\ path = "repositories" /\ utc_now < MaxClock
    /\ \E meeting_id \in MeetingIds, text \in TranscriptTexts,
          t \in (utc_now + 1)..MaxClock, io_error \in BOOLEAN :
          /\ utc_now' = t
          /\ IF io_error
             THEN /\ UNCHANGED transcript_chunks
                  /\ db_last' = DbCall("save_transcript_data", meeting_id, FALSE, text)
             ELSE /\ transcript_chunks' =
                        (transcript_chunks \ ChunkRowOf(meeting_id))
                        \cup {[meeting_id |-> meeting_id, transcript_text |-> text,
                               model |-> "whisper", model_name |-> "large-v3",
                               chunk_size |-> Some(40), overlap |-> Some(5), created_at |-> t]}
                  /\ db_last' = DbCall("save_transcript_data", meeting_id, TRUE, text)
    /\ UNCHANGED <<Config, StreamState, pc, CommandVars, SinkState, lrc_content, meetings,
                   chat_messages>>

\* update_transcript_text_only
UpdateTranscriptTextOnly ==
    /\ path = "repositories" /\ utc_now < MaxClock
    /\ \E meeting_id \in MeetingIds, text \in TranscriptTexts,
          t \in (utc_now + 1)..MaxClock, io_error \in BOOLEAN :
          /\ utc_now' = t
          /\ IF io_error
             THEN /\ UNCHANGED transcript_chunks
                  /\ db_last' = DbCall("update_transcript_text_only", meeting_id, FALSE, text)
             ELSE /\ transcript_chunks' =
                        IF ChunkRowOf(meeting_id) = {}
                        THEN transcript_chunks
                             \cup {[meeting_id |-> meeting_id, transcript_text |-> text,
                                    model |-> "unknown", model_name |-> "unknown",
                                    chunk_size |-> ColumnDefault,
                                    overlap |-> ColumnDefault, created_at |-> t]}
                        ELSE {IF r.meeting_id = meeting_id
                              THEN [r EXCEPT !.transcript_text = text, !.created_at = t]
                              ELSE r : r \in transcript_chunks}
                  /\ db_last' = DbCall("update_transcript_text_only", meeting_id, TRUE, text)
    /\ UNCHANGED <<Config, StreamState, pc, CommandVars, SinkState, lrc_content, meetings,
                   chat_messages>>

\* format!("chat-msg-{}", Uuid::new_v4()): a uuid no row has
MessageIds == {<<"chat-msg-", n>> : n \in 1..MaxUuids}
FreshMessageIds == MessageIds \ {r.id : r \in chat_messages}

\* save_message inserting without the test for the meeting
SaveMessage_MeetingNotVerified ==
    /\ path = "repositories" /\ utc_now < MaxClock
    /\ \E meeting_id \in MeetingIds, ttft \in {None, Some(5)},
          t \in (utc_now + 1)..MaxClock, io_error \in BOOLEAN :
          IF io_error
          THEN /\ db_last' = DbCall("save_message", meeting_id, FALSE, <<"database error">>)
               /\ UNCHANGED <<chat_messages, utc_now>>
          ELSE /\ FreshMessageIds # {}
               /\ \E message_id \in FreshMessageIds :
                     /\ chat_messages' = chat_messages
                           \cup {[id |-> message_id, meeting_id |-> meeting_id,
                                  role |-> "user", content |-> "hello",
                                  created_at |-> t, ttft_us |-> ttft]}
                     /\ db_last' = DbCall("save_message", meeting_id, TRUE, message_id)
               /\ utc_now' = t
    /\ UNCHANGED <<Config, StreamState, pc, CommandVars, SinkState, lrc_content, meetings,
                   transcript_chunks>>

\* save_message: one transaction
SaveMessage ==
    /\ path = "repositories" /\ utc_now < MaxClock
    /\ \E meeting_id \in MeetingIds, ttft \in {None, Some(5)},
          t \in (utc_now + 1)..MaxClock, io_error \in BOOLEAN :
          IF io_error
          THEN /\ db_last' = DbCall("save_message", meeting_id, FALSE, <<"database error">>)
               /\ UNCHANGED <<chat_messages, utc_now>>
          ELSE IF meeting_id \notin meetings
          THEN /\ db_last' = DbCall("save_message", meeting_id, FALSE, <<"RowNotFound">>)
               /\ UNCHANGED <<chat_messages, utc_now>>
          ELSE /\ FreshMessageIds # {}
               /\ \E message_id \in FreshMessageIds :
                     /\ chat_messages' = chat_messages
                           \cup {[id |-> message_id, meeting_id |-> meeting_id,
                                  role |-> "user", content |-> "hello",
                                  created_at |-> t, ttft_us |-> ttft]}
                     /\ db_last' = DbCall("save_message", meeting_id, TRUE, message_id)
               /\ utc_now' = t
    /\ UNCHANGED <<Config, StreamState, pc, CommandVars, SinkState, lrc_content, meetings,
                   transcript_chunks>>

InitRepositories ==
    /\ path = "repositories" /\ provider = "OpenAI" /\ StreamIdle
    /\ request = NoRequest /\ meeting_lookup = "none" /\ transcript_text = Text(0)
    /\ metadata_cache = None /\ metadata_fetches = 0 /\ metadata = None
    /\ token_threshold = None /\ validation = None /\ cmd_result = None
    /\ messages = <<>> /\ cmd_pc = "idle"
    /\ lrc_content = <<>>
    /\ meetings \in {{}, {"meeting-1"}}
    /\ chat_messages = {} /\ transcript_chunks = {}
    /\ utc_now = 0 /\ db_last = None

InitStore == InitParseLrc \/ InitRepositories

NextStore ==
    \/ ParseLrcCall
    \/ SaveTranscriptData
    \/ UpdateTranscriptTextOnly
    \/ SaveMessage

SpecStore == InitStore /\ [][NextStore]_vars

(***************************************************************************)
(* The chat handler of a provider run over a whole response: the stream    *)
(* decoded, split at the blank lines and handled block by block, with the  *)
(* number of the block as the reading of the clock.                        *)
(***************************************************************************)
ChatStart ==
    [finish_reason |-> None, usage_stats |-> None, usage_input |-> None,
     usage_output |-> None, ttft_us |-> None, first_token_received |-> FALSE,
     out |-> <<>>, parsed |-> <<>>, err |-> None]

RECURSIVE ChatOver(_, _, _, _)
ChatOver(p, st, text, taken) ==
    IF IsSome(st.err) \/ find_blank_line(text) = 0 THEN st
    ELSE LET line_end == find_blank_line(text)
         IN ChatOver(p, ProcessBlock(p, st, SubSeq(text, 1, line_end - 1), taken + 1),
                     SubSeq(text, line_end + 2, Len(text)), taken + 1)

ChatOfStream(p, bytes) == ChatOver(p, ChatStart, from_utf8_lossy(bytes), 0)

(***************************************************************************)
(* Several chat requests at once.  api_chat_send_message takes the meeting *)
(* id as the request id and spawns a task that runs stream_chat; the task  *)
(* emits the events of its request on the app handle all tasks share.      *)
(***************************************************************************)
\* most tasks spawned in one behaviour
MaxTasks == 2

\* the responses the server sends to the requests
ConcurrentBodies ==
    {<<>>, <<DataPrefix, ContentOpen, "a", CloseNoFinish, LF, LF>>}

\* the events stream_chat emits for a response, under the request id given
EventsOfRequest(request_id, response_body, fails) ==
    LET chat == ChatOfStream("OpenAI", response_body)
        terminal == IF fails
                    THEN StreamErrorPayload(<<"Stream error: ", "connection reset">>)
                    ELSE StreamDonePayload(chat.usage_stats, chat.finish_reason,
                                           "OpenAI", chat.ttft_us)
        emitted == chat.out \o <<terminal>>
    IN [i \in DOMAIN emitted |-> [emitted[i] EXCEPT !.request_id = request_id]]

\* api_chat_send_message from `let request_id` to the spawn
SpawnChatTask ==
    /\ path = "concurrent" /\ Len(tasks) < MaxTasks
    /\ \E meeting_id \in MeetingIds, b \in ConcurrentBodies, fails \in BOOLEAN :
          tasks' = Append(tasks, [request_id |-> meeting_id,
                                  to_emit |-> EventsOfRequest(meeting_id, b, fails)])
    /\ UNCHANGED <<Config, StreamState, pc, CommandVars, StoreState, sink>>

\* a spawned task emits the next event of its request
TaskEmits ==
    /\ path = "concurrent"
    /\ \E i \in DOMAIN tasks :
          /\ tasks[i].to_emit # <<>>
          /\ sink' = Append(sink, [task |-> i, payload |-> Head(tasks[i].to_emit)])
          /\ tasks' = [tasks EXCEPT ![i].to_emit = Tail(@)]
    /\ UNCHANGED <<Config, StreamState, pc, CommandVars, StoreState>>

InitConcurrent ==
    /\ path = "concurrent" /\ provider = "OpenAI" /\ StreamIdle
    /\ request = NoRequest /\ meeting_lookup = "none" /\ transcript_text = Text(0)
    /\ metadata_cache = None /\ metadata_fetches = 0 /\ metadata = None
    /\ token_threshold = None /\ validation = None /\ cmd_result = None
    /\ messages = <<>> /\ cmd_pc = "idle"
    /\ StoreIdle

NextConcurrent == SpawnChatTask \/ TaskEmits

SpecConcurrent == InitConcurrent /\ [][NextConcurrent]_vars

(***************************************************************************)
(* Vocabulary of the properties.                                           *)
(***************************************************************************)
IsToken(e) == e.event = "llm:chat:token"
IsDone(e) == e.event = "llm:chat:done"
IsError(e) == e.event = "llm:chat:error"
IsTerminal(e) == IsDone(e) \/ IsError(e)
Last(q) == q[Len(q)]
IsPrefix(p, q) == Len(p) <= Len(q) /\ SubSeq(q, 1, Len(p)) = p

TerminalCount == Cardinality({i \in DOMAIN events : IsTerminal(events[i])})
Returned == IsSome(result)

TokenDeltas(evs) ==
    LET toks == SelectSeq(evs, IsToken)
    IN [i \in 1..Len(toks) |-> toks[i].content_delta]

\* the payloads of the data lines of one event block, in order
DataPayloads(block) ==
    LET ls == SelectSeq(lines(block), LAMBDA l : starts_with(l, DataPrefix))
    IN [i \in 1..Len(ls) |-> Tail(ls[i])]

IsMarker(payload) == trim(payload) = <<DoneMarker>>

\* the block the next iteration of the splitting loop takes off the buffer
HasBlock == pc = "streaming" /\ find_blank_line(buffer) > 0
NextBlock == SubSeq(buffer, 1, find_blank_line(buffer) - 1)
AfterNextBlock == SubSeq(buffer, find_blank_line(buffer) + 2, Len(buffer))

\* C1: every invocation of stream_chat emits exactly one terminal event
\* (llm:chat:done or llm:chat:error): never two, and one once it has returned,
\* done for Ok and error for Err.
C1_ExactlyOneTerminalEvent ==
    /\ TerminalCount <= 1
    /\ Returned =>
          /\ TerminalCount = 1
          /\ events # <<>>
          /\ IF Unwrap(result).ok THEN IsDone(Last(events)) ELSE IsError(Last(events))

C1_Witness ==
    /\ pc = "completed" /\ provider = "Groq"
    /\ Len(events) = 2 /\ IsToken(events[1]) /\ IsDone(events[2])

\* C2: the events of one invocation are token events followed by the single
\* terminal event, and nothing is emitted after the terminal event.
C2_TokensThenTerminal ==
    /\ [](\A i \in DOMAIN events : i < Len(events) => IsToken(events[i]))
    /\ [](Returned => events # <<>> /\ IsTerminal(Last(events)))
    /\ [][TerminalCount > 0 => events' = events]_vars

C2_Witness ==
    /\ pc = "failed" /\ Len(events) = 3
    /\ IsToken(events[1]) /\ IsToken(events[2]) /\ IsError(events[3])

(***************************************************************************)
(* The same loop fed with the whole response in one chunk.                 *)
(***************************************************************************)
RECURSIVE SplitBlocks(_)
SplitBlocks(text) ==
    LET i == find_blank_line(text)
    IN IF i = 0 THEN <<>>
       ELSE <<SubSeq(text, 1, i - 1)>> \o SplitBlocks(SubSeq(text, i + 2, Len(text)))

RECURSIVE RunBlocks(_, _, _)
RunBlocks(p, st, bs) ==
    IF bs = <<>> \/ IsSome(st.err) THEN st
    ELSE RunBlocks(p, ProcessBlock(p, st, Head(bs), 0), Tail(bs))

FreshLocals ==
    [finish_reason |-> None, usage_stats |-> None, usage_input |-> None,
     usage_output |-> None, ttft_us |-> None, first_token_received |-> FALSE,
     out |-> <<>>, parsed |-> <<>>, err |-> None]

SingleChunkBlocks == SplitBlocks(from_utf8_lossy(body))
SingleChunkDeltas == TokenDeltas(RunBlocks(provider, FreshLocals, SingleChunkBlocks).out)

\* C3: however the response bytes are split into network chunks, the loop
\* decodes the event blocks, and emits the token events, that it decodes and
\* emits when the whole response arrives as one chunk.
C3_FragmentationIndependent ==
    /\ IsPrefix(blocks, SingleChunkBlocks)
    /\ IsPrefix(TokenDeltas(events), SingleChunkDeltas)
    /\ pc = "completed" =>
          /\ blocks = SingleChunkBlocks
          /\ TokenDeltas(events) = SingleChunkDeltas

(***************************************************************************)
(* What the frames of an OpenAI-compatible stream say, read off the        *)
(* decoded blocks.                                                         *)
(***************************************************************************)
RECURSIVE AllPayloads(_)
AllPayloads(bs) ==
    IF bs = <<>> THEN <<>> ELSE DataPayloads(Head(bs)) \o AllPayloads(Tail(bs))

\* the payloads of a block that no [DONE] payload precedes in that block
RECURSIVE UpToMarker(_)
UpToMarker(payloads) ==
    IF payloads = <<>> \/ IsMarker(Head(payloads)) THEN <<>>
    ELSE <<Head(payloads)>> \o UpToMarker(Tail(payloads))

RECURSIVE PayloadsUpToMarker(_)
PayloadsUpToMarker(bs) ==
    IF bs = <<>> THEN <<>>
    ELSE UpToMarker(DataPayloads(Head(bs))) \o PayloadsUpToMarker(Tail(bs))

FirstChoiceDelta(payload) ==
    LET p == ParseStreamChatChunk(payload)
    IN IF p.ok /\ p.choices # <<>> /\ IsSome(p.choices[1].content)
          /\ Unwrap(p.choices[1].content) # <<>>
       THEN <<Unwrap(p.choices[1].content)>> ELSE <<>>

RECURSIVE ContentDeltas(_)
ContentDeltas(payloads) ==
    IF payloads = <<>> THEN <<>>
    ELSE FirstChoiceDelta(Head(payloads)) \o ContentDeltas(Tail(payloads))

RECURSIVE ReportedFinish(_, _)
ReportedFinish(payloads, sofar) ==
    IF payloads = <<>> THEN sofar
    ELSE LET p == ParseStreamChatChunk(Head(payloads))
         IN ReportedFinish(Tail(payloads),
                IF p.ok /\ p.choices # <<>> /\ IsSome(p.choices[1].finish_reason)
                THEN p.choices[1].finish_reason ELSE sofar)

FramesAgree(payloads) ==
    provider # "Claude" =>
       /\ TokenDeltas(events) = ContentDeltas(payloads)
       /\ pc = "completed" => Last(events).finish_reason = ReportedFinish(payloads, None)

Received(json) == \E i \in DOMAIN frames : frames[i] = <<json>>
ReceivedInput == IF Received(MessageStartJson) THEN Some(10) ELSE None
ReceivedOutput == IF Received(MessageDeltaJson) THEN Some(3) ELSE None

ParsesFor(p, payload) ==
    IF p = "Claude" THEN ParseClaudeStreamEvent(payload).ok
    ELSE ParseStreamChatChunk(payload).ok

Malformed(payload) == ~IsMarker(payload) /\ ~ParsesFor(provider, payload)

\* the data payloads of the block are all malformed JSON, and there is one
OnlyMalformed(block) ==
    /\ DataPayloads(block) # <<>>
    /\ \A i \in DOMAIN DataPayloads(block) : Malformed(DataPayloads(block)[i])

\* C6: a data payload that is not valid JSON for the schema is skipped: the
\* iteration that takes its block off the buffer emits nothing, leaves finish
\* reason, usage and TTFT as they were, does not end the request and consumes
\* nothing but that block, so the frames after it are processed as usual.
C6_MalformedSkipped ==
    [][(HasBlock /\ OnlyMalformed(NextBlock)) =>
          /\ events' = events
          /\ finish_reason' = finish_reason
          /\ usage_stats' = usage_stats
          /\ usage_input' = usage_input /\ usage_output' = usage_output
          /\ ttft_us' = ttft_us
          /\ pc' = "streaming" /\ result' = None
          /\ buffer' = AfterNextBlock /\ wire' = wire]_vars

C6_Witness ==
    /\ pc = "completed" /\ provider = "OpenAI"
    /\ Len(frames) = 3
    /\ FirstChoiceDelta(frames[1]) # <<>>
    /\ frames[2] = <<Garbage>>
    /\ FirstChoiceDelta(frames[3]) # <<>>
    /\ Len(events) = 3 /\ IsToken(events[1]) /\ IsToken(events[2]) /\ IsDone(events[3])

(***************************************************************************)
(* The end-of-stream markers.                                              *)
(***************************************************************************)
MarkerDecoded ==
    IF provider = "Claude" THEN Received(MessageStopJson)
    ELSE \E i \in DOMAIN blocks :
            \E k \in DOMAIN DataPayloads(blocks[i]) : IsMarker(DataPayloads(blocks[i])[k])

\* C7: [DONE] is never handed to the JSON parser, and once [DONE] or
\* message_stop has been decoded no later frame produces a token event or
\* changes usage, finish reason or TTFT.
C7_NothingAfterMarker ==
    /\ [](\A i \in DOMAIN frames : ~IsMarker(frames[i]))
    /\ [][MarkerDecoded =>
             /\ TokenDeltas(events') = TokenDeltas(events)
             /\ finish_reason' = finish_reason
             /\ usage_stats' = usage_stats
             /\ usage_input' = usage_input /\ usage_output' = usage_output
             /\ ttft_us' = ttft_us]_vars

(***************************************************************************)
(* Failures.                                                               *)
(***************************************************************************)
NextBlockIsClaudeError ==
    /\ HasBlock /\ provider = "Claude"
    /\ DataPayloads(NextBlock) # <<>>
    /\ Last(DataPayloads(NextBlock)) = <<ErrorJson>>

TransportErrors ==
    { StreamErrorPayload(<<"Stream error: ", "connection reset">>),
      StreamErrorPayload(<<"Claude stream error: ", "connection reset">>) }

\* C8: a Claude error event ends the request in Failed with one error event
\* carrying the message of that event; a transport error of the byte stream
\* ends it with one error event carrying the transport error; the token
\* events emitted before stay, no done event and nothing else follows.
C8_FatalWhileStreaming ==
    /\ [][NextBlockIsClaudeError =>
             /\ pc' = "failed"
             /\ events' = Append(events,
                                 StreamErrorPayload(<<"Claude error: ", "overloaded">>))]_vars
    /\ [][(pc = "streaming" /\ pc' = "failed" /\ ~NextBlockIsClaudeError) =>
             \E e \in TransportErrors : events' = Append(events, e)]_vars
    /\ [][pc = "failed" => (pc' = "failed" /\ events' = events)]_vars
    /\ [](pc = "failed" => \A i \in DOMAIN events : ~IsDone(events[i]))

C8_Witness ==
    /\ pc = "failed" /\ provider = "Claude"
    /\ Len(events) = 2 /\ IsToken(events[1])
    /\ events[2] = StreamErrorPayload(<<"Claude error: ", "overloaded">>)

NeverStreamed ==
    /\ blocks = <<>> /\ frames = <<>> /\ buffer = <<>> /\ wire = <<>>
    /\ ttft_us = None /\ total_time_us = None

NoResponse == IsSome(response) /\ Unwrap(response).status = "none"
NotSuccess == IsSome(response) /\ Unwrap(response).status \notin {"none", "200"}

FailedBeforeStreaming(detail) ==
    /\ pc = "failed" /\ NeverStreamed
    /\ Len(events) = 1 /\ IsError(events[1])
    /\ events[1].message[2] = detail

\* C9 as stated: a request whose send fails or whose status is not 2xx fails
\* without streaming, with one error event whose message contains the
\* transport error, or the response body.
C9_BodyInMessage ==
    /\ NoResponse => FailedBeforeStreaming("connection refused")
    /\ NotSuccess => FailedBeforeStreaming(ErrorBody)

\* C9 as amended: the message contains the response body when the body could
\* be read, and "Unknown error" in its place when it could not.
C9_BodyOrUnknownInMessage ==
    /\ NoResponse => FailedBeforeStreaming("connection refused")
    /\ NotSuccess =>
          FailedBeforeStreaming(IF IsSome(Unwrap(response).text)
                                THEN Unwrap(Unwrap(response).text)
                                ELSE "Unknown error")

C9_Witness ==
    /\ NotSuccess /\ Unwrap(response).text = None
    /\ events = <<StreamErrorPayload(<<"Streaming API request failed: ", "Unknown error">>)>>


\* C10: with the generic OpenAI-compatible provider and no base endpoint the
\* request fails with the configuration error and no HTTP call is issued, in
\* stream_chat, in the streaming summary and in the non-streaming summary.
C10_MissingEndpointRejected ==
    (provider = "OpenAICompatible" /\ openai_compatible_endpoint = None /\ pc # "start") =>
       /\ pc = "failed"
       /\ http_calls = 0 /\ api_url = None /\ response = None
       /\ IsSome(result) /\ ~Unwrap(result).ok
       /\ Unwrap(result).err = <<"OpenAI Compatible endpoint not configured">>
       /\ path = "chat" =>
             events = <<StreamErrorPayload(<<"OpenAI Compatible endpoint not configured">>)>>

C10_Witness ==
    /\ path = "summary" /\ provider = "OpenAICompatible"
    /\ openai_compatible_endpoint = None /\ api_key = ""
    /\ pc = "failed" /\ http_calls = 0

(***************************************************************************)
(* Endpoint and headers of the request that was built.                     *)
(***************************************************************************)
\* base without its trailing slashes, said without reference to the code
StrippedOf(base, r) ==
    \E k \in 0..Len(base) :
       /\ r = SubSeq(base, 1, k)
       /\ k > 0 => base[k] # Slash
       /\ \A j \in (k + 1)..Len(base) : base[j] = Slash

UrlAsDocumented(url) ==
    CASE provider = "OpenAI" -> url = <<"https://api.openai.com/v1/chat/completions">>
      [] provider = "Groq" -> url = <<"https://api.groq.com/openai/v1/chat/completions">>
      [] provider = "OpenRouter" -> url = <<"https://openrouter.ai/api/v1/chat/completions">>
      [] provider = "Ollama" ->
           url = (IF IsSome(ollama_endpoint) THEN Unwrap(ollama_endpoint)
                  ELSE <<"http://localhost:11434">>) \o <<"/v1/chat/completions">>
      [] provider = "OpenAICompatible" ->
           /\ IsSome(openai_compatible_endpoint)
           /\ Len(url) >= 1 /\ url[Len(url)] = "/chat/completions"
           /\ StrippedOf(Unwrap(openai_compatible_endpoint), SubSeq(url, 1, Len(url) - 1))
      [] OTHER -> TRUE

Resolvable ==
    /\ provider # "Claude" \/ path \in {"chat", "summary", SummaryClaudePath}
    /\ provider = "OpenAICompatible" => IsSome(openai_compatible_endpoint)
    /\ api_key # ControlCharKey

\* C11: in stream_chat, in the streaming summary and in the non-streaming
\* summary alike, the URL of the request is the fixed URL of OpenAI, Groq or
\* OpenRouter whatever endpoints the caller supplies, the Ollama base (default
\* http://localhost:11434) followed by /v1/chat/completions, or the generic
\* provider's base without its trailing slashes followed by /chat/completions;
\* and a request that can be resolved has a URL once it is past resolution.
C11_EndpointResolution ==
    /\ IsSome(api_url) => UrlAsDocumented(Unwrap(api_url))
    /\ (pc # "start" /\ Resolvable) => IsSome(api_url)

C11_Witness ==
    /\ path = "chat" /\ provider = "OpenAICompatible" /\ pc = "completed"
    /\ openai_compatible_endpoint = Some(Host \o <<Slash, Slash>>)
    /\ api_url = Some(Host \o <<"/chat/completions">>)

HeaderNames == {h[1] : h \in headers}

\* C12: a request that was sent carries Authorization: Bearer <key> exactly
\* when its provider is not Claude and it is not the generic provider with an
\* empty key; a Claude request carries x-api-key and anthropic-version and no
\* Authorization header.
C12_AuthorizationHeader ==
    http_calls > 0 =>
       /\ ("authorization" \in HeaderNames) <=>
             (provider # "Claude" /\ ~(api_key = "" /\ provider = "OpenAICompatible"))
       /\ "authorization" \in HeaderNames =>
             <<"authorization", <<"Bearer ", api_key>>>> \in headers
       /\ provider = "Claude" =>
             /\ <<"x-api-key", <<api_key>>>> \in headers
             /\ "anthropic-version" \in HeaderNames

C12_Witness ==
    /\ path = "summary_streaming" /\ provider = "Ollama" /\ api_key = ""
    /\ http_calls = 1 /\ <<"authorization", <<"Bearer ", "">>>> \in headers

(***************************************************************************)
(* Latency instrumentation.                                                *)
(***************************************************************************)
\* C13: when a request ends with a TTFT, 0 <= TTFT <= total elapsed time, so
\* total_time_us - ttft of log_ttft_metrics does not underflow; in the chat
\* handlers the done event carries that TTFT, in the summary handlers the
\* result does.
C13_TtftWithinTotal ==
    (IsSome(total_time_us) /\ IsSome(ttft_us)) =>
       /\ 0 <= Unwrap(ttft_us)
       /\ Unwrap(ttft_us) <= Unwrap(total_time_us)
       /\ Unwrap(total_time_us) - Unwrap(ttft_us) >= 0
       /\ path = "chat" => Last(events).ttft_us = ttft_us
       /\ path # "chat" =>
             /\ Unwrap(result).ttft_us = ttft_us
             /\ Unwrap(result).total_time_us = Unwrap(total_time_us)

C13_Witness ==
    /\ path = SummaryClaudePath /\ pc = "completed"
    /\ ttft_us = Some(0) /\ total_time_us = Some(1)
    /\ accumulated_content = <<"a", EAcute>>

NonEmptyFragmentSeen ==
    \/ \E i \in DOMAIN events : IsToken(events[i]) /\ events[i].content_delta # <<>>
    \/ accumulated_content # <<>>

\* C14: TTFT is set in the step that handles the first non-empty content
\* fragment, to the elapsed time read in that step; it is absent as long as
\* only empty fragments were handled, and once set it never changes.
C14_TtftRecordedOnce ==
    /\ [](IsSome(ttft_us) <=> NonEmptyFragmentSeen)
    /\ [][IsSome(ttft_us) => ttft_us' = ttft_us]_vars
    /\ [][(ttft_us = None /\ IsSome(ttft_us')) => ttft_us' = Some(now')]_vars

C14_Witness ==
    /\ path = "chat" /\ provider = "Claude" /\ pc = "completed"
    /\ TokenDeltas(events) = << <<>>, <<"a">>, <<EAcute>> >>
    /\ ttft_us = Some(0) /\ now = 1

\* C15: in every streaming handler the instant from which TTFT and the total
\* are measured has been taken when the HTTP request is sent, and was taken
\* before any request was sent.
C15_StartBeforeSend ==
    (path \in {"chat", "summary_streaming", SummaryClaudePath} /\ http_calls > 0) =>
       request_start_time = Some(0)

ValidRoles == {"system", "user", "assistant"}
NonBlank(content) == \E j \in DOMAIN content : content[j] \notin White_Space
WellFormed(ms) ==
    /\ ms # <<>>
    /\ \A i \in DOMAIN ms : ms[i].role \in ValidRoles /\ NonBlank(ms[i].content)

\* C16: validate_chat_messages returns Ok exactly when the list is not empty
\* and every message has one of the roles system, user, assistant and a
\* content that is not empty once trimmed; otherwise it returns an error.
C16_ValidationIffWellFormed ==
    IsSome(validation) =>
       /\ Unwrap(validation).ok <=> WellFormed(messages)
       /\ ~Unwrap(validation).ok => Unwrap(validation).err # <<>>
       /\ path = "validate" => cmd_result = validation

C16_Witness ==
    /\ path = "validate" /\ cmd_pc = "returned"
    /\ Len(messages) = 2
    /\ \A i \in DOMAIN messages : messages[i].role \in ValidRoles
    /\ messages[1].content = <<LF, "a", SP>>
    /\ messages[2].content = <<SP, TAB>>
    /\ cmd_result = Some(Err(<<"Message content cannot be empty">>))

\* C17: when the message list of a request fails validation,
\* api_chat_send_message returns the validation error and no HTTP call has
\* been made for the request, neither to the provider nor for the context
\* size of the model.
C17_RejectedBeforeHttp ==
    (path = "chat" /\ IsSome(validation) /\ ~Unwrap(validation).ok) =>
       /\ cmd_result = validation
       /\ pc = "idle"
       /\ http_calls = 0
       /\ metadata_fetches = 0

\* the request has run to its end: rejected by the command, or the task the
\* command spawned has returned
RequestOver ==
    /\ path = "chat" /\ cmd_pc = "returned"
    /\ ~Unwrap(cmd_result).ok \/ Returned

\* C18: every request made through api_chat_send_message that has run to its
\* end has put exactly one terminal event (done or error) on the sink, also
\* when the command rejected it before spawning the streaming task.
C18_OneTerminalPerRequest ==
    RequestOver => TerminalCount = 1

LookupOf(md) ==
    IF IsSome(md) THEN Unwrap(md)
    ELSE [ok |-> FALSE, context_size |-> 0, fetched |-> FALSE]
ClaimedThreshold ==
    IF provider # "Ollama" THEN 100000
    ELSE IF ~Unwrap(metadata).ok THEN 4000
    ELSE IF Unwrap(metadata).context_size >= 300
         THEN Unwrap(metadata).context_size - 300
    ELSE 0

\* C19: the token threshold is 100000 for every provider but Ollama; for
\* Ollama it is the cached or fetched context size less 300 and never below
\* 0, or 4000 when the lookup fails; get_transcript_chunk_for_chat and
\* build_chat_system_prompt compute the same value from the same lookup.
C19_TokenThreshold ==
    IsSome(token_threshold) =>
       /\ Unwrap(token_threshold) = ClaimedThreshold
       /\ Unwrap(token_threshold) >= 0
       /\ TokenThresholdForChunk(provider, LookupOf(metadata))
             = TokenThresholdForPrompt(provider, LookupOf(metadata))
       /\ (provider = "Ollama" /\ Unwrap(metadata).ok) =>
             metadata_cache = Some(Unwrap(metadata).context_size)
       /\ (provider = "Ollama" /\ ~Unwrap(metadata).fetched) =>
             Unwrap(metadata).ok

C19_Witness ==
    /\ path = "chat" /\ provider = "Ollama" /\ cmd_pc = "threshold"
    /\ metadata = Some([ok |-> TRUE, context_size |-> 200, fetched |-> TRUE])
    /\ metadata_fetches = 1
    /\ token_threshold = Some(0)

\* C20: get_transcript_chunk_for_chat returns the whole transcript for every
\* provider but Ollama; for Ollama it returns the whole transcript exactly
\* when the token count is below the threshold, and otherwise a first chunk
\* of the transcript (the whole transcript when there is no chunk).
C20_ChunkSelection ==
    (path = "transcript_chunk" /\ cmd_pc \notin {"called", "threshold"}) =>
       /\ cmd_pc = "returned"
       /\ IsSome(cmd_result) /\ Unwrap(cmd_result).ok
       /\ IF provider # "Ollama"
             \/ rough_token_count(transcript_text) < Unwrap(token_threshold)
             \/ rough_token_count(transcript_text) = 0
          THEN Unwrap(cmd_result).value = transcript_text
          ELSE /\ Unwrap(cmd_result).value.first = transcript_text.first
               /\ Unwrap(cmd_result).value.last <= transcript_text.last
               /\ Unwrap(cmd_result).value.last >= Unwrap(cmd_result).value.first

\* C22: generate_summary with stream = true hands a Claude request to the
\* Claude streaming handler, which sends it to the Anthropic endpoint, and
\* the other providers to the OpenAI-compatible handler; a request whose
\* stream ends returns Ok with the accumulated content and the TTFT.
C22_StreamingRouted ==
    (path = "summary_streaming" /\ pc # "start") =>
       /\ (provider = "Claude" /\ HeaderValueOk(api_key)) =>
             /\ api_url = Some(<<"https://api.anthropic.com/v1/messages">>)
             /\ <<"x-api-key", <<api_key>>>> \in headers
       /\ pc = "completed" =>
             /\ Unwrap(result).ok
             /\ Unwrap(result).content = accumulated_content
             /\ Unwrap(result).ttft_us = ttft_us

ContentKept(sent, m) ==
    \/ m.content = <<>>
    \/ \E j \in DOMAIN sent.messages : sent.messages[j] = m
    \/ m.role = "system" /\ sent.system = Some(m.content)

\* C21: the body stream_chat_claude sends has no message of role system, has
\* the other messages in their order, carries as `system` the content of the
\* system message (no such field when there is none or it is empty), has
\* stream true and max_tokens the value of the caller or 2048; every content
\* of the message list is in the body.
C21_ClaudeRequestBody ==
    (path = "chat" /\ provider = "Claude" /\ IsSome(request_body)) =>
       LET b == Unwrap(request_body)
       IN /\ \A j \in DOMAIN b.messages : b.messages[j].role # "system"
          /\ b.messages = SelectSeq(messages, LAMBDA m : m.role # "system")
          /\ IsSome(b.system) => /\ Unwrap(b.system) # <<>>
                                 /\ \E i \in DOMAIN messages :
                                       /\ messages[i].role = "system"
                                       /\ messages[i].content = Unwrap(b.system)
          /\ b.system = None =>
                \A i \in DOMAIN messages :
                   messages[i].role = "system" => messages[i].content = <<>>
          /\ b.stream = TRUE
          /\ b.max_tokens = (IF IsSome(request.max_tokens)
                             THEN Unwrap(request.max_tokens) ELSE 2048)
          /\ \A i \in DOMAIN messages : ContentKept(b, messages[i])

BuiltPrompts ==
    {o.prompt : o \in {x \in SystemPromptOutcomes(transcript_text, provider,
                                                  Unwrap(token_threshold)) : ~x.panic}}

TwoDigits(s, i) == s[i] \in AsciiDigits /\ s[i + 1] \in AsciiDigits
NumberAt(s, i) == 10 * DigitValue(s[i]) + DigitValue(s[i + 1])
HasTimestampForm(l) ==
    /\ Len(l) >= 7 /\ l[1] = "[" /\ TwoDigits(l, 2) /\ l[4] = ":" /\ TwoDigits(l, 5)
    /\ \/ l[7] = "]"
       \/ Len(l) >= 10 /\ l[7] = "." /\ TwoDigits(l, 8) /\ l[10] = "]"
TextOfLine(l) == trim(SubSeq(l, (IF l[7] = "]" THEN 8 ELSE 11), Len(l)))
EntryOfLine(l) ==
    [time_seconds |-> 100 * (60 * NumberAt(l, 2) + NumberAt(l, 5))
                      + (IF l[7] = "]" THEN 0 ELSE NumberAt(l, 8)),
     text |-> TextOfLine(l)]
ContentLines == LET ls == lines(lrc_content) IN [i \in DOMAIN ls |-> trim(ls[i])]
TimestampedLines ==
    {i \in DOMAIN ContentLines :
        HasTimestampForm(ContentLines[i]) /\ TextOfLine(ContentLines[i]) # <<>>}
MetadataTags ==
    {<<"[", "t", "i", ":">>, <<"[", "a", "r", ":">>, <<"[", "a", "l", ":">>,
     <<"[", "a", "u", ":">>, <<"[", "l", "e", "n", "g", "t", "h", ":">>}
IsMetadataLine(l) == \E tag \in MetadataTags : StartsWith(l, tag)
EntriesOf(e) ==
    {j \in DOMAIN Unwrap(cmd_result).lines : Unwrap(cmd_result).lines[j] = e}
LinesFor(e) ==
    {i \in DOMAIN ContentLines :
        /\ IsSome(timestamp_captures(ContentLines[i]))
        /\ ~IsMetadataLine(ContentLines[i])
        /\ trim(Unwrap(timestamp_captures(ContentLines[i])).text) = e.text}
ParseLrcOver == path = "parse_lrc" /\ cmd_pc # "called"

\* C24: once parse_lrc has run, every line [mm:ss.xx]text or [mm:ss]text with
\* a text that is not blank has its entry in the result, with the time
\* 60 * minutes + seconds + centiseconds / 100 and the trimmed text, and there
\* are no more entries than lines that give one; a metadata tag line gives no
\* entry and the title is the value of the last [ti:] line.
C24_TimestampLinesParsed ==
    ParseLrcOver =>
       /\ cmd_pc = "returned"
       /\ \A i \in TimestampedLines :
             /\ Unwrap(cmd_result).ok
             /\ EntriesOf(EntryOfLine(ContentLines[i])) # {}
       /\ \A j \in DOMAIN Unwrap(cmd_result).lines :
             Cardinality(EntriesOf(Unwrap(cmd_result).lines[j]))
                <= Cardinality(LinesFor(Unwrap(cmd_result).lines[j]))
       /\ Unwrap(cmd_result).ok =>
             LET tis == {i \in DOMAIN ContentLines :
                            StartsWith(ContentLines[i], <<"[", "t", "i", ":">>)}
             IN IF tis = {} THEN Unwrap(cmd_result).metadata.title = None
                ELSE Unwrap(cmd_result).metadata.title =
                        extract_metadata_value(
                           ContentLines[CHOOSE i \in tis : \A k \in tis : k <= i])

\* the lines that begin with a timestamp, whatever the number of digits of its
\* minutes and of its hundredths, and have a text that is not blank
TimestampLinesWithText ==
    {i \in DOMAIN ContentLines :
        /\ IsSome(timestamp_captures(ContentLines[i]))
        /\ ~IsMetadataLine(ContentLines[i])
        /\ trim(Unwrap(timestamp_captures(ContentLines[i])).text) # <<>>}

\* C25: parse_lrc returns an error exactly when the content has no
\* timestamped line with a text that is not blank, and an Ok result has at
\* least one line.
C25_ErrorIffNoTimestampedLine ==
    ParseLrcOver =>
       /\ cmd_pc = "returned"
       /\ ~Unwrap(cmd_result).ok <=> TimestampLinesWithText = {}
       /\ Unwrap(cmd_result).ok => Unwrap(cmd_result).lines # <<>>

RepositoryCalled(op) == path = "repositories" /\ IsSome(db_last) /\ Unwrap(db_last).op = op
RowBefore(meeting_id) ==
    {r \in Unwrap(db_last).transcript_chunks : r.meeting_id = meeting_id}

\* C26: a call of update_transcript_text_only that succeeds leaves every row
\* of another meeting as it was; where the meeting had a row, the row is the
\* same but for transcript_text, which is the text given; where it had none,
\* it has one now, with the text given.
C26_OnlyTranscriptTextUpdated ==
    (RepositoryCalled("update_transcript_text_only") /\ Unwrap(db_last).ok) =>
       LET call == Unwrap(db_last)
       IN /\ \A r \in call.transcript_chunks :
                r.meeting_id # call.meeting_id => r \in transcript_chunks
          /\ \A r \in transcript_chunks :
                r.meeting_id # call.meeting_id => r \in call.transcript_chunks
          /\ Cardinality(ChunkRowOf(call.meeting_id)) = 1
          /\ \A r \in ChunkRowOf(call.meeting_id) : r.transcript_text = call.value
          /\ \A old \in RowBefore(call.meeting_id) :
                ChunkRowOf(call.meeting_id) = {[old EXCEPT !.transcript_text = call.value]}

\* C27: save_message for a meeting that does not exist returns an error and
\* leaves chat_messages as it was, as does every call that returns an error;
\* for a meeting that exists, and without an error of the database, it
\* returns Ok; a call that returns Ok has added exactly one row, for that
\* meeting, under an id no row had, and has returned this id.
C27_SaveMessageVerifiesMeeting ==
    RepositoryCalled("save_message") =>
       LET call == Unwrap(db_last)
       IN /\ call.meeting_id \notin meetings => ~call.ok
          /\ ~call.ok => chat_messages = call.chat_messages
          /\ (call.meeting_id \in meetings /\ call.value # <<"database error">>) => call.ok
          /\ call.ok =>
                /\ call.value \notin {r.id : r \in call.chat_messages}
                /\ \E r \in chat_messages :
                      /\ r.id = call.value /\ r.meeting_id = call.meeting_id
                      /\ chat_messages = call.chat_messages \cup {r}
                /\ Cardinality(chat_messages) = Cardinality(call.chat_messages) + 1

C27_Witness ==
    /\ RepositoryCalled("save_message") /\ Unwrap(db_last).ok
    /\ Unwrap(db_last).meeting_id = "meeting-1"
    /\ Cardinality(chat_messages) = 2
    /\ Unwrap(db_last).value = <<"chat-msg-", 1>>

(***************************************************************************)
(* Usage of an OpenAI-compatible stream, read off the data frames.         *)
(***************************************************************************)
RECURSIVE LastUsage(_, _)
LastUsage(payloads, sofar) ==
    IF payloads = <<>> THEN sofar
    ELSE LET p == ParseStreamChatChunk(Head(payloads))
         IN LastUsage(Tail(payloads), IF p.ok /\ IsSome(p.usage) THEN p.usage ELSE sofar)

UsageAgrees(payloads) ==
    (provider # "Claude" /\ pc = "completed") =>
       Last(events).usage = LastUsage(payloads, None)

NextFrames ==
    LET payloads == DataPayloads(NextBlock)
    IN IF provider = "Claude"
       THEN IF payloads = <<>> THEN <<>> ELSE <<Last(payloads)>>
       ELSE UpToMarker(payloads)

EmptyDelta(payload) ==
    IF provider = "Claude"
    THEN LET e == ParseClaudeStreamEvent(payload)
         IN e.ok /\ e.type = "content_block_delta" /\ e.text = <<>>
    ELSE LET p == ParseStreamChatChunk(payload)
         IN /\ p.ok /\ p.choices # <<>>
            /\ (~IsSome(p.choices[1].content) \/ Unwrap(p.choices[1].content) = <<>>)

FinishCarried(payload) ==
    IF provider = "Claude" THEN None
    ELSE ParseStreamChatChunk(payload).choices[1].finish_reason

NoEmptyToken == \A i \in DOMAIN events : IsToken(events[i]) => events[i].content_delta # <<>>

EmptyDeltaStep ==
    (HasBlock /\ blocks' # blocks /\ Len(NextFrames) = 1 /\ EmptyDelta(NextFrames[1])) =>
       /\ TokenDeltas(events') = TokenDeltas(events)
       /\ IsSome(FinishCarried(NextFrames[1])) => finish_reason' = FinishCarried(NextFrames[1])

\* C29: no token event with an empty content delta is ever emitted: a frame
\* whose delta is empty or absent adds no token event, the finish reason it
\* carries is recorded all the same, and the done event reports the finish
\* reason recorded.
C29_EmptyDeltaNoToken ==
    /\ []NoEmptyToken
    /\ [][EmptyDeltaStep]_vars
    /\ [](pc = "completed" => Last(events).finish_reason = finish_reason)

\* a frame that carries a non-empty content delta
HasContent(payload) ==
    IF provider = "Claude"
    THEN LET e == ParseClaudeStreamEvent(payload)
         IN e.ok /\ e.type = "content_block_delta" /\ e.text # <<>>
    ELSE FirstChoiceDelta(payload) # <<>>

ContentReceived == \E i \in DOMAIN frames : HasContent(frames[i])

\* C30: the done event carries a TTFT if and only if a token event was
\* emitted before it, and carries none when no content token was received.
C30_TtftIffTokenEmitted ==
    pc = "completed" =>
       /\ IsSome(Last(events).ttft_us) <=> TokenDeltas(events) # <<>>
       /\ ~ContentReceived => ~IsSome(Last(events).ttft_us)

(***************************************************************************)
(* The lines of an event block.                                            *)
(***************************************************************************)
RECURSIVE WithoutMarkers(_)
WithoutMarkers(payloads) ==
    IF payloads = <<>> THEN <<>>
    ELSE (IF IsMarker(Head(payloads)) THEN <<>> ELSE <<Head(payloads)>>)
         \o WithoutMarkers(Tail(payloads))

NoRecognizedLine(block) ==
    \A i \in DOMAIN lines(block) :
       /\ ~starts_with(lines(block)[i], DataPrefix)
       /\ ~starts_with(lines(block)[i], EventPrefix)

\* C31: the payloads handed to the JSON parser are all the data lines of
\* all the event blocks taken off the buffer, in order ([DONE] apart, which
\* is never parsed), in both handlers; and the iteration for a block without
\* a data or event line changes nothing but the buffer.
C31_EveryDataLineHanded ==
    /\ [](frames = WithoutMarkers(AllPayloads(blocks)))
    /\ [][(HasBlock /\ NoRecognizedLine(NextBlock)) =>
             /\ events' = events /\ frames' = frames
             /\ finish_reason' = finish_reason /\ usage_stats' = usage_stats
             /\ usage_input' = usage_input /\ usage_output' = usage_output
             /\ ttft_us' = ttft_us
             /\ pc' = "streaming" /\ result' = None
             /\ buffer' = AfterNextBlock /\ wire' = wire]_vars

(***************************************************************************)
(* The end of the byte stream.                                             *)
(***************************************************************************)
\* the stream is exhausted and the buffer holds text without a blank line
PartialBlockAtEnd ==
    /\ pc = "streaming" /\ wire = <<>>
    /\ buffer # <<>> /\ find_blank_line(buffer) = 0

\* stream.next() yields a transport error
TransportErrorStep ==
    events' = events \o <<StreamErrorPayload(<<IF provider = "Claude"
                                               THEN "Claude stream error: "
                                               ELSE "Stream error: ", "connection reset">>)>>

\* C32: when the stream ends, without a transport error, while the buffer
\* holds a partial block, the partial block is not processed (no block is
\* taken, no payload parsed, no token and no error emitted) and the request
\* completes: the done event is emitted and Ok returned.
C32_PartialBlockDiscarded ==
    [][(PartialBlockAtEnd /\ ~TransportErrorStep) =>
          /\ Len(events') = Len(events) + 1 /\ IsDone(Last(events'))
          /\ SubSeq(events', 1, Len(events)) = events
          /\ blocks' = blocks /\ frames' = frames
          /\ pc' = "completed" /\ result' = Some([ok |-> TRUE, err |-> <<>>])]_vars

C32_Witness ==
    /\ pc = "completed" /\ provider = "OpenAI"
    /\ buffer = <<DataPrefix, ContentOpen, "a", CloseNoFinish, LF>>
    /\ Len(events) = 2 /\ IsToken(events[1]) /\ IsDone(events[2])
    /\ Len(blocks) = 1

(***************************************************************************)
(* The transcript text of the system prompt and of the chunk function.     *)
(***************************************************************************)
\* the text between the opening and the closing tag of a system prompt
EmbeddedText(prompt) == prompt[3]

PromptsFor(text, p, md) ==
    SystemPromptOutcomes(text, p, TokenThresholdForPrompt(p, md))
ChunksFor(text, p, md) ==
    TranscriptChunkOutcomes(text, p, TokenThresholdForChunk(p, md))

\* C33: for the transcript, the provider and the lookup result of a call of
\* get_transcript_chunk_for_chat that has returned, every prompt that
\* build_chat_system_prompt builds embeds the text returned; for those of a
\* system prompt that has been built, get_transcript_chunk_for_chat returns
\* the text embedded; and one panics exactly when the other can.
C33_SameTranscriptText ==
    /\ (path = "transcript_chunk" /\ cmd_pc = "returned") =>
          \A o \in PromptsFor(transcript_text, provider, LookupOf(metadata)) :
             ~o.panic => EmbeddedText(o.prompt) = TextName(Unwrap(cmd_result).value)
    /\ (path = "chat" /\ messages # <<>> /\ IsSome(token_threshold)) =>
          \A o \in ChunksFor(transcript_text, provider, LookupOf(metadata)) :
             ~o.panic => EmbeddedText(messages[1].content) = TextName(o.text)
    /\ (path \in {"transcript_chunk", "chat"} /\ IsSome(token_threshold)) =>
          ((\E o \in PromptsFor(transcript_text, provider, LookupOf(metadata)) : o.panic)
             <=> (\E o \in ChunksFor(transcript_text, provider, LookupOf(metadata)) : o.panic))

C33_Witness ==
    /\ path = "transcript_chunk" /\ cmd_pc = "returned" /\ provider = "Ollama"
    /\ transcript_text = Text(5000)
    /\ Unwrap(cmd_result).value = [first |-> 1, last |-> 3496]
    /\ \E o \in PromptsFor(transcript_text, provider, LookupOf(metadata)) :
          EmbeddedText(o.prompt) = TextName([first |-> 1, last |-> 3496])

RECURSIVE Joined(_)
Joined(deltas) == IF deltas = <<>> THEN <<>> ELSE Head(deltas) \o Joined(Tail(deltas))

SummaryStreamingPaths == {"summary_streaming", SummaryClaudePath}

\* C34: the content a summary streaming handler returns for a response is
\* the content deltas of the token events of the chat handler of the same
\* schema for that response, joined in order, and the block at which the
\* summary handler records its TTFT is the block at which the chat handler
\* records its own.
C34_SummaryContentIsChatTokens ==
    /\ [](( path \in SummaryStreamingPaths /\ pc = "completed") =>
            LET chat == ChatOfStream(provider, body)
            IN /\ Unwrap(result).content = Joined(TokenDeltas(chat.out))
               /\ IsSome(Unwrap(result).ttft_us) <=> IsSome(chat.ttft_us))
    /\ [][(path \in SummaryStreamingPaths /\ ttft_us = None /\ ttft_us' # None) =>
             ChatOfStream(provider, body).ttft_us = Some(Len(blocks'))]_vars

(***************************************************************************)
(* The events of concurrent requests, as the sink tells them apart.        *)
(***************************************************************************)
RequestIdsSeen == {sink[j].payload.request_id : j \in DOMAIN sink}
EventsOfId(id) == SelectSeq(sink, LAMBDA e : e.payload.request_id = id)
AllEmitted == Len(tasks) = MaxTasks /\ \A i \in DOMAIN tasks : tasks[i].to_emit = <<>>

\* C35: two events on the sink that carry the same request id come from the
\* same request; the events of a request id are token events with at most
\* one terminal event, which is the last of them; and once every task has
\* finished each request id has exactly one terminal event.
C35_EventsAttributable ==
    /\ \A j, k \in DOMAIN sink :
          sink[j].payload.request_id = sink[k].payload.request_id
             => sink[j].task = sink[k].task
    /\ \A id \in RequestIdsSeen :
          LET evs == EventsOfId(id)
          IN /\ \A j \in 1..(Len(evs) - 1) : IsToken(evs[j].payload)
             /\ AllEmitted => IsTerminal(evs[Len(evs)].payload)

(***************************************************************************)
(* The budget of the chunker.                                              *)
(***************************************************************************)
\* the functions of chat/processor.rs have their threshold and take, or have
\* taken, the branch that calls chunk_text
ChunkedBranch ==
    /\ path \in {"transcript_chunk", "chat"} /\ IsSome(token_threshold)
    /\ provider = "Ollama"
    /\ rough_token_count(transcript_text) >= Unwrap(token_threshold)

\* C36: in the chunked branch of get_transcript_chunk_for_chat and of
\* build_chat_system_prompt the subtraction token_threshold - 300 does not
\* overflow, so that neither function panics, and the budget it gives the
\* chunker is a positive number of tokens.
C36_BudgetPositive ==
    /\ cmd_pc # "panicked"
    /\ ChunkedBranch =>
          \A budget \in USizeSub(Unwrap(token_threshold), 300) :
             /\ ~budget.panic
             /\ budget.value = Unwrap(token_threshold) - 300
             /\ budget.value > 0

(***************************************************************************)
(* The two parsers of the provider string.                                 *)
(***************************************************************************)
\* `s.to_lowercase()` on the provider strings of the requests: "OpenAI" is the
\* one string of ProviderStrings with upper-case letters
to_lowercase(s) ==
    CASE s = "OpenAI" -> "openai"
      [] OTHER -> s

\* LLMProvider::from_str; None models the Err
from_str(s) ==
    LET lower == to_lowercase(s)
    IN CASE lower = "openai" -> Some("OpenAI")
         [] lower = "claude" -> Some("Claude")
         [] lower = "groq" -> Some("Groq")
         [] lower = "ollama" -> Some("Ollama")
         [] lower = "openrouter" -> Some("OpenRouter")
         [] lower = "openai-compatible" -> Some("OpenAICompatible")
         [] OTHER -> None

\* api_chat_send_message has found the meeting and matched the provider string
ProviderMatched == path = "chat" /\ meeting_lookup = "found" /\ cmd_pc # "called"

\* C38: api_chat_send_message resolves every provider string to the provider
\* that LLMProvider::from_str gives for it, whatever the case of its letters,
\* and rejects exactly the strings that from_str rejects; a rejected string
\* gives the "Unsupported provider" error and no request has been made.
C38_ProviderParsingConsistent ==
    ProviderMatched =>
       IF IsSome(from_str(request.provider))
       THEN provider = Unwrap(from_str(request.provider))
       ELSE /\ cmd_result = Some(Err(<<"Unsupported provider: ", request.provider>>))
            /\ provider = "Unparsed"
            /\ metadata_fetches = 0 /\ pc = "idle"

(***************************************************************************)
(* Requests without an API key.                                            *)
(***************************************************************************)
\* api_chat_send_message was given no API key and has come to its API key rule
NoKeyDecided ==
    /\ path = "chat" /\ request # NoRequest /\ request.api_key = None
    /\ IsSome(validation) /\ Unwrap(validation).ok
    /\ cmd_pc = "returned"

\* the providers that may run as local services without a key
KeylessProviders == {"Ollama", "OpenAICompatible"}

\* the request that was sent carries an Authorization header
BearerSent == http_calls > 0 /\ \E h \in headers : h[1] = "authorization"

\* C39: a chat request without an API key is accepted for Ollama and for the
\* generic OpenAI-compatible provider and rejected with an error for every
\* hosted provider; an accepted one runs with an empty key, and the header rule
\* of stream_chat leaves the Authorization header out for it, as the command
\* let the key be left out.
C39_KeylessProviders ==
    NoKeyDecided =>
       /\ provider \in KeylessProviders => cmd_result = Some(Ok)
       /\ provider \notin KeylessProviders =>
             cmd_result = Some(Err(<<"API key is required for this provider">>))
       /\ cmd_result = Some(Ok) => api_key = "" /\ ~BearerSent

(***************************************************************************)
(* Termination of stream_chat.                                             *)
(***************************************************************************)
\* stream_chat has returned and the last event on the sink is its terminal one
ChatTerminated ==
    /\ pc \in {"completed", "failed"} /\ IsSome(result)
    /\ events # <<>> /\ IsTerminal(Last(events))

\* an iteration of the block-splitting loop has run
BlockSplitStep == Len(blocks') > Len(blocks)

\* C37: when the byte stream ends or fails, stream_chat returns with its
\* terminal event emitted, whatever the response holds; every iteration of the
\* block-splitting loop leaves the buffer strictly shorter than it found it.
C37_StreamChatTerminates ==
    /\ (pc = "start") ~> ChatTerminated
    /\ [][BlockSplitStep => Len(buffer') < Len(buffer)]_vars

\* a response of three blocks was split to its end and the done event emitted
C37_Witness ==
    /\ path = "chat" /\ pc = "completed" /\ ChatTerminated
    /\ Len(blocks) >= 3 /\ wire = <<>>

====
